---------------------------- MODULE Spec2Model ----------------------------
(***************************************************************************)
(* A model of the ticker_data repository: the command line entry point     *)
(* (src/src/main.py), the fundamentals assembler and its field resolver    *)
(* (src/src/data_fetcher.py), the report writer (src/src/file_writer.py)   *)
(* and the configuration (src/config.py).                                  *)
(*                                                                         *)
(* Python values are tagged records, so that values of different Python    *)
(* types can be compared: None, NaN, numbers (exact rationals n/d), str,   *)
(* dict, list.  Python strings are TLA+ strings, read character by         *)
(* character with SubSeq.                                                  *)
(***************************************************************************)
EXTENDS Integers, Sequences, FiniteSets, TLC

VARIABLES
    pc,         \* main(): where the entry point is
    argv,       \* main(): the parsed arguments (ticker, tickers_file)
    fs,         \* the ticker file on disk: a sequence of lines, or absent
    tickers,    \* main(): the list built at lines 65-66
    idx,        \* main(): position of the for loop of line 70
    invoked,    \* the tickers run_pipeline was called with, in order
    fetchlog,   \* one record per get_annual_fundamentals call
    csv_files,  \* the files save_to_csv wrote
    log,        \* the logging calls made, in order
    escaped,    \* whether an exception left main()
    now_year,   \* datetime.datetime.now().year
    call,       \* the inputs of the function a harness applies
    ret         \* what that function returned

vars == <<pc, argv, fs, tickers, idx, invoked, fetchlog, csv_files, log,
          escaped, now_year, call, ret>>

-----------------------------------------------------------------------------
(* Python values *)

NoneV == [t |-> "None"]
NaN == [t |-> "NaN"]
NAV == [t |-> "NA"]

RECURSIVE Gcd(_, _)
Gcd(a, b) == IF b = 0 THEN a ELSE Gcd(b, a % b)

Abs(a) == IF a < 0 THEN -a ELSE a

Min(S) == CHOOSE x \in S : \A y \in S : x <= y
Max(S) == CHOOSE x \in S : \A y \in S : x >= y

\* The number n/d, reduced, with a positive denominator (d # 0).
Rat(n, d) ==
    LET g == Gcd(Abs(n), Abs(d))
        s == IF d < 0 THEN -1 ELSE 1
    IN  [t |-> "num", n |-> (s * n) \div g, d |-> (s * d) \div g]

Num(n) == [t |-> "num", n |-> n, d |-> 1]
Str(s) == [t |-> "str", s |-> s]
ListV(items) == [t |-> "list", items |-> items]

IsNum(v) == v.t = "num"
IsZero(v) == IsNum(v) /\ v.n = 0

\* local names: Body of the values of v and w, which are evaluated first, as
\* the right-hand side of a Python assignment is before the name is used
With(v, Body(_)) == CHOOSE r \in {Body(x) : x \in {v}} : TRUE
With2(v, w, Body(_, _)) == CHOOSE r \in {Body(x, y) : x \in {v}, y \in {w}} : TRUE

\* arithmetic on reduced fractions, over the least common denominator
AddRat(a, b, g) == Rat(a.n * (b.d \div g) + b.n * (a.d \div g), (a.d \div g) * b.d)
Add(a, b) == With2(a, b, LAMBDA x, y : AddRat(x, y, Gcd(x.d, y.d)))
Neg(a) == [a EXCEPT !.n = -a.n]
Sub(a, b) == With2(a, b, LAMBDA x, y : AddRat(x, Neg(y), Gcd(x.d, y.d)))
MulRat(a, b, g1, g2) == Rat((a.n \div g1) * (b.n \div g2), (a.d \div g2) * (b.d \div g1))
Mul(a, b) == With2(a, b, LAMBDA x, y : MulRat(x, y, Gcd(Abs(x.n), y.d), Gcd(Abs(y.n), x.d)))
\* a / b; Python raises ZeroDivisionError for b = 0
ZeroDivisionError == [t |-> "raise", kind |-> "ZeroDivisionError"]
Div(a, b) ==
    With2(a, b, LAMBDA x, y :
        IF y.n = 0 THEN ZeroDivisionError
        ELSE MulRat(x, Rat(y.d, y.n), Gcd(Abs(x.n), Abs(y.n)), Gcd(y.d, x.d)))
Less(a, b) == a.n * b.d < b.n * a.d

\* pd.isna / pd.notna on a scalar
IsNa(v) == v.t \in {"None", "NaN", "NA"}
NotNa(v) == ~IsNa(v)

\* bool(v): None, 0 and the empty string are false; NaN is true.
Truthy(v) ==
    CASE v.t = "None" -> FALSE
      [] v.t = "num" -> v.n # 0
      [] v.t = "str" -> v.s # ""
      [] v.t = "list" -> v.items # <<>>
      [] OTHER -> TRUE

\* Python's  a or b
PyOr(a, b) == IF Truthy(a) THEN a ELSE b

-----------------------------------------------------------------------------
(* Python str methods *)

UpperChars == "ABCDEFGHIJKLMNOPQRSTUVWXYZ"
LowerChars == "abcdefghijklmnopqrstuvwxyz"
Digits == "0123456789"

Char(s, i) == SubSeq(s, i, i)

\* The first position of character c in s at or after i, or 0.
IndexIn(c, s, i) ==
    IF \E j \in i..Len(s) : Char(s, j) = c
    THEN Min({j \in i..Len(s) : Char(s, j) = c})
    ELSE 0

\* str.lower() on the ASCII letters, as a table from each upper-case letter
LowerMap ==
    [c \in {Char(UpperChars, i) : i \in 1..Len(UpperChars)} |->
        Char(LowerChars, IndexIn(c, UpperChars, 1))]

LowerChar(c) == IF c \in DOMAIN LowerMap THEN LowerMap[c] ELSE c

RECURSIVE StrLower(_)
\* str.lower(): character by character, the string taken by halves
StrLower(s) ==
    IF Len(s) = 0 THEN ""
    ELSE IF Len(s) = 1 THEN LowerChar(s)
    ELSE StrLower(SubSeq(s, 1, Len(s) \div 2))
         \o StrLower(SubSeq(s, Len(s) \div 2 + 1, Len(s)))

\* str.isspace(), for the characters the inputs contain
IsSpace(c) == c \in {" ", "\t", "\n"}

RECURSIVE LStrip(_)
LStrip(s) ==
    IF Len(s) > 0 /\ IsSpace(Char(s, 1)) THEN LStrip(SubSeq(s, 2, Len(s)))
    ELSE s

RECURSIVE RStrip(_)
RStrip(s) ==
    IF Len(s) > 0 /\ IsSpace(Char(s, Len(s))) THEN RStrip(SubSeq(s, 1, Len(s) - 1))
    ELSE s

StrStrip(s) == RStrip(LStrip(s))

RECURSIVE StrRemove(_, _)
\* s.replace(c, '') for a one-character c, the string taken by halves
StrRemove(s, c) ==
    IF Len(s) <= 1 THEN (IF s = c THEN "" ELSE s)
    ELSE StrRemove(SubSeq(s, 1, Len(s) \div 2), c)
         \o StrRemove(SubSeq(s, Len(s) \div 2 + 1, Len(s)), c)

\* the position of the first character c of s, 0 if there is none
Find(s, c) == IndexIn(c, s, 1)

RECURSIVE Split(_, _)
\* s.split(c) for a one-character c
Split(s, c) ==
    IF Find(s, c) = 0 THEN <<s>>
    ELSE <<SubSeq(s, 1, Find(s, c) - 1)>> \o Split(SubSeq(s, Find(s, c) + 1, Len(s)), c)

RECURSIVE Join(_, _)
\* sep.join(items)
Join(items, sep) ==
    IF items = <<>> THEN ""
    ELSE IF Len(items) = 1 THEN items[1]
    ELSE items[1] \o sep \o Join(Tail(items), sep)

StartsWith(s, p) == Len(s) >= Len(p) /\ SubSeq(s, 1, Len(p)) = p

\* sub in s
Contains(s, sub) ==
    \E i \in 1..(Len(s) - Len(sub) + 1) : SubSeq(s, i, i + Len(sub) - 1) = sub

-----------------------------------------------------------------------------
(* Sequences *)

Positions(seq, x) == {i \in 1..Len(seq) : seq[i] = x}

SeqToSet(seq) == {seq[i] : i \in 1..Len(seq)}

-----------------------------------------------------------------------------
(* data_fetcher.py: the row names each metric is looked up under, in the   *)
(* order the call sites list them.                                         *)

RoeNetIncomeCandidates == <<"Net Income", "NetIncome", "netIncome">>
RoeEquityCandidates ==
    <<"Total Stockholder Equity", "TotalStockholderEquity",
      "Total Stockholders Equity", "Total Equity", "TotalAssets">>
EpsCandidatesDated ==
    <<"Basic EPS", "Diluted EPS", "EPS", "Earnings Per Share", "basicEPS", "dilutedEPS">>
EpsCandidatesStmt == <<"Basic EPS", "Diluted EPS", "DilutedEPS", "BasicEPS">>
TotalRevenueCandidates == <<"Total Revenue", "totalRevenue", "TotalRevenue">>
CostOfRevenueCandidates ==
    <<"Cost Of Revenue", "Cost of Revenue", "costOfRevenue", "CostOfRevenue">>
OperatingExpenseCandidates ==
    <<"Operating Expense", "Operating Expenses", "OperatingIncome",
      "Operating Income", "operatingExpense", "operatingExpenses">>
NetIncomeCandidates ==
    <<"Net Income", "NetIncome", "netIncome",
      "Net Income Applicable To Common Shares", "NetIncomeLoss">>
ProfitNetIncomeCandidates == <<"Net Income", "NetIncome", "netIncome">>
CashCandidates ==
    <<"Cash And Cash Equivalents", "Cash And Cash Equivalents (Total)", "Cash", "cash">>
TotalAssetsCandidates == <<"Total Assets", "totalAssets", "TotalAssets">>
TotalLiabCandidates == <<"Total Liab", "Total Liabilities", "totalLiab", "totalLiabilities">>
CurrentAssetsCandidates ==
    <<"Total Current Assets", "TotalCurrentAssets", "totalCurrentAssets">>
CurrentLiabCandidates ==
    <<"Total Current Liabilities", "TotalCurrentLiabilities", "totalCurrentLiabilities">>
IntangibleCandidates ==
    <<"Intangible Assets", "intangibleAssets", "Goodwill And Intangible Assets">>
GoodwillCandidates == <<"Goodwill", "goodWill">>
LongTermDebtCandidates == <<"Long Term Debt", "Long-term Debt", "longTermDebt">>
ShortTermDebtCandidates ==
    <<"Short Long Term Debt", "Short Term Debt", "Short-term Debt", "shortTermDebt">>
OrdinarySharesCandidates ==
    <<"Basic Average Shares", "Basic Average Shares (Shares)", "BasicAverageShares",
      "Basic EPS Shares", "Basic Shares", "Weighted Average Shares",
      "WeightedAverageShares">>

\* Row labels as providers spell them, and the spellings callers ask for.
LabelPool == {"Total Revenue", "totalRevenue", "Net Income"}
CandidatePool == {" total_revenue", "Revenue", "netIncome", "Net Income", "totalRevenue"}

-----------------------------------------------------------------------------
(* DataFrames: statement tables as the provider hands them over.           *)
(* index and columns are sequences of labels, data[i][j] the cell of row i *)
(* and column j.  Row labels are Python strings; a column label is a       *)
(* Timestamp, an int or a str.                                             *)

Df(index, columns, data) ==
    [t |-> "df", index |-> index, columns |-> columns, data |-> data]

EmptyDf == Df(<<>>, <<>>, <<>>)

IsDataFrame(df) == df.t = "df"

\* DataFrame.empty
DfEmpty(df) == Len(df.index) = 0 \/ Len(df.columns) = 0

Ts(y) == [t |-> "ts", year |-> y]
IntCol(v) == [t |-> "int", v |-> v]
StrCol(s) == [t |-> "strcol", s |-> s]

safe_get_value(df, row_name, date) ==
    IF ~IsDataFrame(df) THEN NoneV
    ELSE
        LET rs == Positions(df.index, row_name)
            cs == Positions(df.columns, date)
        IN  \* a missing key raises KeyError; a repeated one makes df.loc
            \* return a Series, on which the conditional of line 13 raises
            IF Cardinality(rs) # 1 \/ Cardinality(cs) # 1 THEN NoneV
            ELSE
                LET value == df.data[CHOOSE i \in rs : TRUE][CHOOSE j \in cs : TRUE]
                IN  IF NotNa(value) THEN value ELSE NoneV

RECURSIVE get_value_candidates(_, _, _)
get_value_candidates(df, candidates, date) ==
    IF candidates = <<>> THEN NoneV
    ELSE
        LET val == safe_get_value(df, Head(candidates), date)
        IN  IF val # NoneV THEN val
            ELSE get_value_candidates(df, Tail(candidates), date)

\* line 35
_norm(s) == StrRemove(StrRemove(StrLower(StrStrip(s)), " "), "_")

\* _norm of each label of a sequence, in order
NormKeys(labels) == [i \in 1..Len(labels) |-> _norm(labels[i])]

\* lines 45 and 48
LowerStrip(s) == StrLower(StrStrip(s))

LowerStripAll(labels) == [i \in 1..Len(labels) |-> LowerStrip(labels[i])]

\* idx_map built so that the first label with a key is kept
idx_map_FirstWins(keys, index) ==
    [k \in SeqToSet(keys) |-> index[Min(Positions(keys, k))]]

\* idx_map of line 37, keys being the _norm of each label of index: a later
\* label replaces an earlier one with the same key
idx_map(keys, index) ==
    [k \in SeqToSet(keys) |-> index[Max(Positions(keys, k))]]

\* the candidates, by position, whose key is in the map
KeyHits(map, cand_keys) == {k \in 1..Len(cand_keys) : cand_keys[k] \in DOMAIN map}

\* lines 39-42, cand_keys being the _norm of each candidate
NormalizedMatch(map, cand_keys) ==
    IF KeyHits(map, cand_keys) = {} THEN NoneV
    ELSE Str(map[cand_keys[Min(KeyHits(map, cand_keys))]])

\* the labels, by position, that contain the candidate
SubstringHits(index_low, low) ==
    {i \in 1..Len(index_low) : Contains(index_low[i], low)}

\* the candidates, by position, that some label contains
SubstringCands(index_low, cands_low) ==
    {k \in 1..Len(cands_low) : SubstringHits(index_low, cands_low[k]) # {}}

\* lines 44-51, with the lower-case stripped labels and candidates
SubstringMatch(index, index_low, cands_low) ==
    IF SubstringCands(index_low, cands_low) = {} THEN NoneV
    ELSE Str(index[Min(SubstringHits(index_low,
                                     cands_low[Min(SubstringCands(index_low, cands_low))]))])

\* a if it is not None, else b
FirstNotNone(a, b) == IF a # NoneV THEN a ELSE b

\* the same with the two loops in the other order: substring matches first
_find_label_by_candidates_SubstringFirst(df, candidates) ==
    IF ~IsDataFrame(df) \/ DfEmpty(df) THEN NoneV
    ELSE FirstNotNone(
            SubstringMatch(df.index, LowerStripAll(df.index), LowerStripAll(candidates)),
            NormalizedMatch(idx_map(NormKeys(df.index), df.index), NormKeys(candidates)))

\* The label found, as Str(label), or None.
_find_label_by_candidates(df, candidates) ==
    IF ~IsDataFrame(df) \/ DfEmpty(df) THEN NoneV
    ELSE FirstNotNone(
            NormalizedMatch(idx_map(NormKeys(df.index), df.index), NormKeys(candidates)),
            SubstringMatch(df.index, LowerStripAll(df.index), LowerStripAll(candidates)))

\* lines 56-59, label being what _find_label_by_candidates returned
LabelValue(df, label, date) ==
    IF label = NoneV THEN NoneV ELSE safe_get_value(df, label.s, date)

\* a resolver that goes on to the next candidate when the row found holds a
\* null at the period
RECURSIVE get_value_candidates_normalized_SkipNull(_, _, _)
get_value_candidates_normalized_SkipNull(df, candidates, date) ==
    IF candidates = <<>> THEN NoneV
    ELSE
        LET val == LabelValue(df, _find_label_by_candidates(df, <<Head(candidates)>>), date)
        IN  IF val # NoneV THEN val
            ELSE get_value_candidates_normalized_SkipNull(df, Tail(candidates), date)

\* lines 55-60
get_value_candidates_normalized(df, candidates, date) ==
    LabelValue(df, _find_label_by_candidates(df, candidates), date)

-----------------------------------------------------------------------------
(* config.py *)

CSV_ROW_NAMES ==
    << "marketCap", "beta", "peRatio", "forwardDividendYield", "EPS",
       "52WeekRange", "trailingPE", "forwardPE", "profitMargin",
       "dividend_and_split", "payoutRatio", "ROE",
       "totalRevenue", "totalRevenueChange", "costOfRevenue",
       "operatingExpense", "netIncome", "EBITDA",
       "cash cash equivalence", "total assets", "total liabilities",
       "working capital", "invested capital", "net debts",
       "net debts over EBITDA", "ordinary shared number",
       "net tangible assets" >>

START_YEAR == 2021

\* list(range(START_YEAR, now.year)): the range without the + 1 of line 44
YEARS_TO_EXTRACT_Exclusive(now) == [i \in 1..(now - START_YEAR) |-> START_YEAR + i - 1]

\* list(range(START_YEAR, now.year + 1)), for the year the process started in
YEARS_TO_EXTRACT(now) == [i \in 1..(now + 1 - START_YEAR) |-> START_YEAR + i - 1]

YearSet(now) == SeqToSet(YEARS_TO_EXTRACT(now))

-----------------------------------------------------------------------------
(* pandas Series and the result DataFrame of the assembler.  A Series is a *)
(* function from column keys to values; the keys of the result are the     *)
(* years (int) and 'actual' (str).                                         *)

Actual == StrCol("actual")

\* {y: None for y in YEARS_TO_EXTRACT}
NoneYears(now) == [c \in {IntCol(y) : y \in YearSet(now)} |-> NoneV]

\* {**a, **b}
Merge(a, b) ==
    [k \in DOMAIN a \cup DOMAIN b |-> IF k \in DOMAIN b THEN b[k] ELSE a[k]]

\* d with d[k] = v
Put(d, k, v) == Merge(d, [x \in {k} |-> v])

EmptyDict == [k \in {} |-> NoneV]

\* pd.Series(d): with at least one float (NaN is one) and nothing but numbers
\* and nulls the dtype is float64 and every None becomes NaN; otherwise object.
PdSeries(d) ==
    IF /\ \E k \in DOMAIN d : IsNum(d[k]) \/ d[k] = NaN
       /\ \A k \in DOMAIN d : IsNum(d[k]) \/ IsNa(d[k])
    THEN [k \in DOMAIN d |-> IF IsNa(d[k]) THEN NaN ELSE d[k]]
    ELSE d

\* pd.DataFrame(index=..., columns=...): every cell NaN
DfNew(index, columns) ==
    Df(index, columns, [i \in 1..Len(index) |-> [j \in 1..Len(columns) |-> NaN]])

\* the row a Series gives when aligned on the columns of df
AlignedRow(df, series) ==
    [j \in 1..Len(df.columns) |->
        IF df.columns[j] \in DOMAIN series THEN series[df.columns[j]] ELSE NaN]

\* df.reindex(index=labels): the rows of labels, in that order; NaN rows for
\* labels df does not have
DfReindex(df, labels) ==
    [df EXCEPT !.index = labels,
               !.data = [i \in 1..Len(labels) |->
                    IF Positions(df.index, labels[i]) # {}
                    THEN df.data[Min(Positions(df.index, labels[i]))]
                    ELSE [j \in 1..Len(df.columns) |-> NaN]]]

\* df[cols] after lines 452-454 have added, as None, every column missing
DfSelectColumns(df, cols) ==
    [df EXCEPT !.columns = cols,
               !.data = [i \in 1..Len(df.index) |->
                    [j \in 1..Len(cols) |->
                        IF Positions(df.columns, cols[j]) # {}
                        THEN df.data[i][Min(Positions(df.columns, cols[j]))]
                        ELSE NoneV]]]

InsertAt(seq, pos, x) ==
    SubSeq(seq, 1, pos) \o <<x>> \o SubSeq(seq, pos + 1, Len(seq))

\* df.insert(pos, column, values), pos counted from 0, values one per row;
\* the caller has checked that the column is new (insert raises otherwise)
DfInsert(df, pos, column, values) ==
    [df EXCEPT !.columns = InsertAt(df.columns, pos, column),
               !.data = [i \in 1..Len(df.index) |-> InsertAt(df.data[i], pos, values[i])]]

\* df.at[row, col] of the result table
DfAt(df, row, col) ==
    df.data[Min(Positions(df.index, row))][Min(Positions(df.columns, col))]

-----------------------------------------------------------------------------
(* data_fetcher.py: column years *)

DigitValue(c) == IndexIn(c, Digits, 1) - 1

IsDigits(s) == \A i \in 1..Len(s) : IndexIn(Char(s, i), Digits, 1) # 0

\* pd.to_datetime(s).year for the spellings "YYYY" and "YYYY-..." of a date;
\* any other text does not parse
ParsedYear(s) ==
    IF Len(s) >= 4 /\ IsDigits(SubSeq(s, 1, 4)) /\ (Len(s) = 4 \/ Char(s, 5) = "-")
    THEN Num(1000 * DigitValue(Char(s, 1)) + 100 * DigitValue(Char(s, 2))
             + 10 * DigitValue(Char(s, 3)) + DigitValue(Char(s, 4)))
    ELSE NoneV

EPOCH_YEAR == 1970

\* The year of a column label as Num(year), or None.  A Timestamp has .year;
\* an int has not and pd.to_datetime reads it as nanoseconds since the epoch;
\* a str is parsed; None has no year.
_col_year(col) ==
    CASE col.t = "ts" -> Num(col.year)
      [] col.t = "int" -> Num(EPOCH_YEAR)
      [] col.t = "strcol" -> ParsedYear(col.s)
      [] OTHER -> NoneV

\* the positions of the columns of df a loop "for date in df.columns" keeps
\* for year y
ColsOfYear(df, y) ==
    {j \in 1..Len(df.columns) : _col_year(df.columns[j]) = Num(y)}

\* the years of `years` such a loop assigns, as column keys
LoopYears(df, years) ==
    IF IsDataFrame(df)
    THEN {IntCol(y) : y \in {z \in years : ColsOfYear(df, z) # {}}}
    ELSE {}

\* the date whose assignment survives the loop for year y: the last one
LoopDate(df, y) == df.columns[Max(ColsOfYear(df, y))]

\* the dict a loop "for date in df.columns" builds: for every year of `years`
\* that some column has, F of the last such column
LoopDict(df, years, F(_)) ==
    [c \in LoopYears(df, years) |-> F(LoopDate(df, c.v))]

\* d.get(k)
DictGet(d, k) == IF k \in DOMAIN d THEN d[k] ELSE NoneV

-----------------------------------------------------------------------------
(* data_fetcher.py: what the provider (yfinance) hands over for one ticker.*)
(* A price history is a frame of daily rows in index order; each row has   *)
(* the year and the day of its date and one value per column.              *)

PriceDf(dt_index, columns, rows) ==
    [t |-> "df", dt_index |-> dt_index, columns |-> columns, rows |-> rows]

\* price_hist.empty
PriceEmpty(ph) == ph.rows = <<>> \/ ph.columns = {}

\* current_info.get(k), with  ticker.info or {}
Info(p, k) == IF p.info = NoneV THEN NoneV ELSE DictGet(p.info, k)

\* the rows of the mask  price_hist.index.year == year
RowsOfYear(ph, y) == {i \in 1..Len(ph.rows) : ph.rows[i].year = y}

RECURSIVE SumOver(_, _, _)
\* the sum of column col over the rows `rows` (a set of positions) of ph
SumOver(ph, rows, col) ==
    IF rows = {} THEN Num(0)
    ELSE LET i == Min(rows)
         IN  Add(ph.rows[i].v[col], SumOver(ph, rows \ {i}, col))

\* lines 93-108; None, or the Close of the last row dated up to 31 December
get_year_end_price_series(price_hist, year) ==
    LET until == {i \in 1..Len(price_hist.rows) : price_hist.rows[i].year <= year}
    IN  IF until = {} \/ price_hist.columns = {} THEN NoneV
        ELSE price_hist.rows[Max(until)].v["Close"]

\* line 108 raises KeyError: rows up to the year end and no Close column
YearEndPriceRaises(price_hist, year) ==
    /\ \E i \in 1..Len(price_hist.rows) : price_hist.rows[i].year <= year
    /\ price_hist.columns # {}
    /\ "Close" \notin price_hist.columns

-----------------------------------------------------------------------------
(* data_fetcher.py: calculate_roe, lines 76-90 *)


\* lines 86-89, for one column
\* line 87 without the test  total_equity == 0
RoeOf_NoZeroGuard(net_income, total_equity) ==
    IF net_income = NoneV \/ total_equity = NoneV
    THEN NoneV
    ELSE Div(net_income, total_equity)

RoeOf(net_income, total_equity) ==
    IF net_income = NoneV \/ total_equity = NoneV \/ IsZero(total_equity)
    THEN NoneV
    ELSE Div(net_income, total_equity)

RoeAt(income_statement, balance_sheet, date) ==
    RoeOf(get_value_candidates_normalized(income_statement, RoeNetIncomeCandidates, date),
          get_value_candidates_normalized(balance_sheet, RoeEquityCandidates, date))

calculate_roe(income_statement, balance_sheet, years) ==
    LoopDict(income_statement, years,
        LAMBDA date : RoeAt(income_statement, balance_sheet, date))

-----------------------------------------------------------------------------
(* data_fetcher.py: get_annual_fundamentals, lines 111-469.  p is what the *)
(* provider returns for the ticker, now the current year.  Each block of   *)
(* the function is an operator giving the dict the block builds.           *)

Years(now) == YearSet(now)
YearKeys(now) == {IntCol(y) : y \in YearSet(now)}

EarningsAttributes == <<"income_stmt", "earnings", "earnings_history", "quarterly_financials">>

RECURSIVE PickEarnings(_, _)
\* lines 122-131: the first attribute that is a non-empty DataFrame, else the
\* value the last iteration left
PickEarnings(attrs, last) ==
    IF attrs = <<>> THEN last
    ELSE IF IsDataFrame(Head(attrs)) /\ ~DfEmpty(Head(attrs)) THEN Head(attrs)
         ELSE PickEarnings(Tail(attrs), Head(attrs))

earnings_history(p) == PickEarnings(p.earnings_attrs, NoneV)


\* lines 158-191
eps_data(p, now) ==
    LET eh == earnings_history(p)
        first_col == IF IsDataFrame(eh) /\ Len(eh.columns) > 0 THEN eh.columns[1] ELSE NoneV
        income_stmt_df == p.earnings_attrs[1]
        per_year ==
            IF ~IsDataFrame(eh) THEN EmptyDict
            ELSE IF _col_year(first_col) # NoneV THEN LoopDict(eh, Years(now),
                    LAMBDA date : get_value_candidates(eh, EpsCandidatesDated, date))
            ELSE LoopDict(income_stmt_df, Years(now),
                    LAMBDA date : get_value_candidates(income_stmt_df, EpsCandidatesStmt, date))
    IN  Put(per_year, Actual, Info(p, "trailingEps"))

\* line 193
eps_series(p, now) ==
    Put(Merge(NoneYears(now), eps_data(p, now)), Actual, DictGet(eps_data(p, now), Actual))


\* lines 197-207 and 212-222
StmtDict(p, now, candidates) ==
    LoopDict(p.financials, Years(now),
        LAMBDA date : get_value_candidates_normalized(p.financials, candidates, date))

total_rev(p, now) == StmtDict(p, now, TotalRevenueCandidates)
cost_rev(p, now) == StmtDict(p, now, CostOfRevenueCandidates)
operating_exp(p, now) == StmtDict(p, now, OperatingExpenseCandidates)
net_income_vals(p, now) == StmtDict(p, now, NetIncomeCandidates)

\* line 224: the 'actual' cell of netIncome
NetIncomeActual(p) == PyOr(Info(p, "netIncomeToCommon"), Info(p, "netIncome"))

\* lines 227-230
roe_data(p, now) ==
    Put(calculate_roe(IF p.financials # NoneV THEN p.financials ELSE EmptyDf,
                      IF p.balance_sheet # NoneV THEN p.balance_sheet ELSE EmptyDf,
                      Years(now)),
        Actual, Info(p, "returnOnEquity"))


\* lines 242-245, for one column
ProfitOf(ni, tr) ==
    IF ni = NoneV \/ tr = NoneV \/ IsZero(tr) THEN NoneV ELSE Div(ni, tr)

ProfitAt(income_statement, date) ==
    ProfitOf(get_value_candidates_normalized(income_statement, ProfitNetIncomeCandidates, date),
             get_value_candidates_normalized(income_statement, TotalRevenueCandidates, date))

\* lines 234-246
profit_data(p, now) ==
    Put(LoopDict(p.financials, Years(now),
        LAMBDA date : ProfitAt(p.financials, date)), Actual, Info(p, "profitMargins"))

-----------------------------------------------------------------------------
(* str(float), as astype(str) and the f-strings produce it *)

RECURSIVE NatToStr(_)
NatToStr(n) ==
    IF n < 10 THEN Char(Digits, n + 1)
    ELSE NatToStr(n \div 10) \o Char(Digits, (n % 10) + 1)

FloatReprDigits == 17

RECURSIVE FracDigits(_, _, _)
\* the decimal digits of r/d (r < d), by long division, at most k of them
FracDigits(r, d, k) ==
    IF r = 0 \/ k = 0 THEN ""
    ELSE Char(Digits, ((r * 10) \div d) + 1) \o FracDigits((r * 10) % d, d, k - 1)

FloatStr(v) ==
    LET a == Abs(v.n)
        frac == FracDigits(a % v.d, v.d, FloatReprDigits)
    IN  (IF v.n < 0 THEN "-" ELSE "") \o NatToStr(a \div v.d) \o "."
        \o (IF frac = "" THEN "0" ELSE frac)

\* str(v) of a scalar
PyStr(v) ==
    CASE v.t = "None" -> "None"
      [] v.t = "NaN" -> "nan"
      [] v.t = "NA" -> "<NA>"
      [] v.t = "str" -> v.s
      [] v.t = "num" -> FloatStr(v)
      [] OTHER -> "?"

-----------------------------------------------------------------------------
(* get_annual_fundamentals: the blocks that read the price history *)

Dict(d) == [t |-> "dict", d |-> d]

RECURSIVE SplitEvents(_, _)
\* line 257: the non-zero Stock Splits of the rows, in index order, as str
SplitEvents(ph, rows) ==
    IF rows = {} THEN <<>>
    ELSE LET i == Min(rows)
             rest == SplitEvents(ph, rows \ {i})
         IN  IF IsZero(ph.rows[i].v["Stock Splits"]) THEN rest
             ELSE <<FloatStr(ph.rows[i].v["Stock Splits"])>> \o rest

\* line 258 without the test  total_div != 0: a zero sum is kept
DivSplitOf_ZeroKept(ph, y) ==
    LET total_div == SumOver(ph, RowsOfYear(ph, y), "Dividends")
        split_events == SplitEvents(ph, RowsOfYear(ph, y))
    IN  Dict([k \in {"dividends", "splits"} |->
            IF k = "dividends" THEN total_div
            ELSE (IF split_events # <<>> THEN ListV(split_events) ELSE NoneV)])

\* line 258
DivSplitOf(ph, y) ==
    LET total_div == SumOver(ph, RowsOfYear(ph, y), "Dividends")
        split_events == SplitEvents(ph, RowsOfYear(ph, y))
    IN  Dict([k \in {"dividends", "splits"} |->
            IF k = "dividends"
            THEN (IF ~IsZero(total_div) THEN total_div ELSE NoneV)
            ELSE (IF split_events # <<>> THEN ListV(split_events) ELSE NoneV)])

\* lines 250-260
divsplit(p, now) ==
    IF IsDataFrame(p.history) /\ "Dividends" \in p.history.columns
    THEN [c \in YearKeys(now) |->
            IF RowsOfYear(p.history, c.v) # {} THEN DivSplitOf(p.history, c.v) ELSE NoneV]
    ELSE EmptyDict

\* lines 261-262
last_div(p) ==
    PyOr(PyOr(Info(p, "lastDividendValue"), Info(p, "dividendRate")),
         Info(p, "forwardDividendRate"))
last_split(p) == PyOr(Info(p, "lastSplitFactor"), Info(p, "lastSplitDate"))

\* line 263
divsplit_series(p, now) ==
    Put(Merge(NoneYears(now), [c \in YearKeys(now) |-> DictGet(divsplit(p, now), c)]),
        Actual,
        Dict([k \in {"lastDividend", "lastSplit"} |->
                IF k = "lastDividend" THEN last_div(p) ELSE last_split(p)]))

\* lines 269-273
annual_div(p, y) ==
    IF IsDataFrame(p.history) /\ RowsOfYear(p.history, y) # {}
    THEN SumOver(p.history, RowsOfYear(p.history, y), "Dividends")
    ELSE NoneV

\* lines 274-277
PayoutOf(eps, div) ==
    IF eps = NoneV \/ IsZero(eps) \/ div = NoneV THEN NoneV
    ELSE IF Truthy(eps) THEN Div(div, eps) ELSE NoneV

\* lines 266-278
payout(p, now) ==
    Put([c \in YearKeys(now) |-> PayoutOf(DictGet(eps_data(p, now), c), annual_div(p, c.v))],
        Actual, Info(p, "payoutRatio"))

\* lines 285-288
MarketCapOf(shares_outstanding, close_price) ==
    IF Truthy(shares_outstanding) /\ Truthy(close_price)
    THEN Mul(shares_outstanding, close_price)
    ELSE NoneV

\* lines 282-289
marketcap(p, now) ==
    Put([c \in YearKeys(now) |->
            MarketCapOf(Info(p, "sharesOutstanding"),
                        IF IsDataFrame(p.history)
                        THEN get_year_end_price_series(p.history, c.v)
                        ELSE NoneV)],
        Actual, Info(p, "marketCap"))

\* lines 331-334 and 340: f"{low}-{high}"
RangeStr(lo, hi) == Str(PyStr(lo) \o "-" \o PyStr(hi))

RangeOf(min_price, max_price) ==
    IF NotNa(max_price) /\ NotNa(min_price) THEN RangeStr(min_price, max_price) ELSE NoneV

RECURSIVE Extreme(_, _, _, _)
\* max (hi) or min of column col over the rows
Extreme(ph, rows, col, hi) ==
    LET i == Min(rows)
        x == ph.rows[i].v[col]
    IN  IF rows = {i} THEN x
        ELSE LET r == Extreme(ph, rows \ {i}, col, hi)
             IN  IF hi THEN (IF Less(x, r) THEN r ELSE x)
                 ELSE (IF Less(r, x) THEN r ELSE x)

\* lines 324-340
range_data(p, now) ==
    LET ph == p.history
        per_year ==
            IF IsDataFrame(ph) /\ "High" \in ph.columns /\ "Low" \in ph.columns
            THEN [c \in YearKeys(now) |->
                    IF RowsOfYear(ph, c.v) # {}
                    THEN RangeOf(Extreme(ph, RowsOfYear(ph, c.v), "Low", FALSE),
                                 Extreme(ph, RowsOfYear(ph, c.v), "High", TRUE))
                    ELSE NoneV]
            ELSE NoneYears(now)
        f52_low == Info(p, "fiftyTwoWeekLow")
        f52_high == Info(p, "fiftyTwoWeekHigh")
    IN  Put(per_year, Actual,
            IF Truthy(f52_low) /\ Truthy(f52_high) THEN RangeStr(f52_low, f52_high) ELSE NoneV)

-----------------------------------------------------------------------------
(* get_annual_fundamentals: beta, lines 293-316.  Closing prices are       *)
(* positive, so a daily return is a number.                                *)

\* the days of year y that have a return: every row of the year but the first
\* (pct_change().dropna())
ReturnDays(h, y) ==
    {h.rows[i].day : i \in RowsOfYear(h, y) \ {Min(RowsOfYear(h, y))}}

RowOfDay(h, y, d) == CHOOSE i \in RowsOfYear(h, y) : h.rows[i].day = d

\* the return of day d: Close over the Close of the row before, minus 1
ReturnOn(h, y, d) ==
    LET i == RowOfDay(h, y, d)
        prev == Max({j \in RowsOfYear(h, y) : j < i})
    IN  Div(Sub(h.rows[i].v["Close"], h.rows[prev].v["Close"]), h.rows[prev].v["Close"])

RECURSIVE SumReturns(_, _, _)
SumReturns(h, y, days) ==
    IF days = {} THEN Num(0)
    ELSE Add(ReturnOn(h, y, Min(days)), SumReturns(h, y, days \ {Min(days)}))

MeanReturn(h, y, days) == Div(SumReturns(h, y, days), Num(Cardinality(days)))

RECURSIVE SumDeviations(_, _, _, _, _, _)
\* the sum over the days of (a - mean_a)(b - mean_b)
SumDeviations(a, b, y, days, mean_a, mean_b) ==
    IF days = {} THEN Num(0)
    ELSE Add(Mul(Sub(ReturnOn(a, y, Min(days)), mean_a),
                 Sub(ReturnOn(b, y, Min(days)), mean_b)),
             SumDeviations(a, b, y, days \ {Min(days)}, mean_a, mean_b))

\* the same, the means being those of the returns of the days
SumProducts(a, b, y, days) ==
    With2(MeanReturn(a, y, days), MeanReturn(b, y, days),
        LAMBDA mean_a, mean_b : SumDeviations(a, b, y, days, mean_a, mean_b))

\* lines 296-312 for one year, any exception giving None (lines 313-314)
BetaOf(price_hist, market_hist, y) ==
    IF ~(IsDataFrame(price_hist) /\ market_hist # NoneV) THEN NoneV
    ELSE IF ~(price_hist.dt_index /\ market_hist.dt_index) THEN NoneV
    ELSE IF ~( /\ RowsOfYear(price_hist, y) # {}
               /\ RowsOfYear(market_hist, y) # {}
               /\ "Close" \in price_hist.columns
               /\ "Close" \in market_hist.columns ) THEN NoneV
    ELSE
        LET combined == ReturnDays(price_hist, y) \cap ReturnDays(market_hist, y)
            n == Cardinality(combined)
            \* (n - 1) var and (n - 1) cov; with n = 1 both are 0/0 = NaN
            var_sum == SumProducts(market_hist, market_hist, y, combined)
            cov_sum == SumProducts(price_hist, market_hist, y, combined)
        IN  IF n = 0 THEN NoneV
            ELSE IF n = 1 THEN NaN
            ELSE IF IsZero(var_sum) THEN NoneV
            ELSE Div(cov_sum, var_sum)

\* lines 293-315
beta_data(p, now) ==
    Put([c \in YearKeys(now) |-> BetaOf(p.history, p.market, c.v)],
        Actual, Info(p, "beta"))

\* lines 317-320: a row with the 'actual' cell only
ActualOnly(now, v) == Merge([c \in {Actual} |-> v], NoneYears(now))

-----------------------------------------------------------------------------
(* get_annual_fundamentals: the balance sheet block, lines 347-437 *)


safe_bs_get(p, date, candidates) ==
    get_value_candidates_normalized(p.balance_sheet, candidates, date)

OrZero(v) == IF v # NoneV THEN v ELSE Num(0)

\* lines 398-403
TotalDebtsOf(ltd, std) ==
    IF ltd = NoneV /\ std = NoneV THEN NoneV ELSE Add(OrZero(ltd), OrZero(std))

\* lines 407-410
WorkingCapitalOf(tca, tcl) ==
    IF tca # NoneV /\ tcl # NoneV THEN Sub(tca, tcl) ELSE NoneV

\* invested capital without the fallback to the total liabilities
InvestedCapitalOf_NoFallback(ta, tcl, tl, cash) ==
    IF ta # NoneV THEN Sub(Sub(ta, OrZero(tcl)), OrZero(cash)) ELSE NoneV

\* lines 413-420
InvestedCapitalOf(ta, tcl, tl, cash) ==
    IF ta # NoneV
    THEN LET used_liab == IF tcl # NoneV THEN tcl ELSE (IF tl # NoneV THEN tl ELSE Num(0))
         IN  Sub(Sub(ta, OrZero(used_liab)), OrZero(cash))
    ELSE NoneV

\* lines 423-427
NetTangibleOf(ta, ia, gw) ==
    IF ta # NoneV THEN Sub(Sub(ta, OrZero(ia)), OrZero(gw)) ELSE NoneV

\* the dict the loop of line 365 builds for one of its names
BalanceDict(p, now, F(_)) == LoopDict(p.balance_sheet, Years(now), F)

cash_eq(p, now) ==
    Put(BalanceDict(p, now,
        LAMBDA date : safe_bs_get(p, date, CashCandidates)), Actual, NoneV)

total_assets(p, now) ==
    Put(BalanceDict(p, now,
        LAMBDA date : safe_bs_get(p, date, TotalAssetsCandidates)), Actual, NoneV)

total_liabilities(p, now) ==
    Put(BalanceDict(p, now,
        LAMBDA date : safe_bs_get(p, date, TotalLiabCandidates)), Actual, NoneV)

working_cap(p, now) ==
    Put(BalanceDict(p, now,
        LAMBDA date : WorkingCapitalOf(safe_bs_get(p, date, CurrentAssetsCandidates),
                                    safe_bs_get(p, date, CurrentLiabCandidates))), Actual, NoneV)

invested_cap(p, now) ==
    Put(BalanceDict(p, now,
        LAMBDA date : InvestedCapitalOf(safe_bs_get(p, date, TotalAssetsCandidates),
                                     safe_bs_get(p, date, CurrentLiabCandidates),
                                     safe_bs_get(p, date, TotalLiabCandidates),
                                     safe_bs_get(p, date, CashCandidates))), Actual, NoneV)

total_debts(p, now) ==
    Put(BalanceDict(p, now,
        LAMBDA date : TotalDebtsOf(safe_bs_get(p, date, LongTermDebtCandidates),
                                safe_bs_get(p, date, ShortTermDebtCandidates))), Actual, NoneV)

ordinary_shares(p, now) ==
    Put(BalanceDict(p, now,
        LAMBDA date : get_value_candidates_normalized(p.financials, OrdinarySharesCandidates, date)), Actual, Info(p, "sharesOutstanding"))

net_tangible_assets(p, now) ==
    Put(BalanceDict(p, now,
        LAMBDA date : NetTangibleOf(safe_bs_get(p, date, TotalAssetsCandidates),
                                 safe_bs_get(p, date, IntangibleCandidates),
                                 safe_bs_get(p, date, GoodwillCandidates))), Actual, NoneV)

-----------------------------------------------------------------------------
(* get_annual_fundamentals: failure, exceptions and the table *)

\* line 149
\* line 149 testing for None only, not for empty frames
FetchFailure_NoneOnly(p) ==
    /\ p.financials = NoneV
    /\ p.history = NoneV

FetchFailure(p) ==
    /\ (p.financials = NoneV \/ DfEmpty(p.financials))
    /\ (p.history = NoneV \/ PriceEmpty(p.history))

\* a ratio block divided by zero
DividesByZero(d) == \E k \in DOMAIN d : d[k] = ZeroDivisionError

\* The exception that leaves the try block of line 115, "none" if there is
\* none.  price_hist.index.year needs a DatetimeIndex; a column that is
\* missing raises KeyError where it is read without a test.
AssemblyException(ticker_symbol, p, now) ==
    LET ph == p.history
        traded == \E y \in Years(now) : RowsOfYear(ph, y) # {}
    IN  IF p.network_error THEN "ConnectionError"                     \* 117-141
        ELSE IF Years(now) = {} THEN "ValueError"                     \* 138
        ELSE IF FetchFailure(p) THEN "none"                           \* 149-151
        ELSE IF DividesByZero(roe_data(p, now)) THEN "ZeroDivisionError"      \* 89
        ELSE IF DividesByZero(profit_data(p, now)) THEN "ZeroDivisionError"   \* 245
        ELSE IF IsDataFrame(ph) /\ ~ph.dt_index THEN "AttributeError"         \* 253, 271
        ELSE IF IsDataFrame(ph) /\ "Dividends" \in ph.columns /\ traded
                /\ "Stock Splits" \notin ph.columns THEN "KeyError"           \* 256
        ELSE IF IsDataFrame(ph) /\ traded /\ "Dividends" \notin ph.columns
             THEN "KeyError"                                          \* 273
        ELSE IF DividesByZero(payout(p, now)) THEN "ZeroDivisionError"        \* 277
        ELSE IF IsDataFrame(ph) /\ (\E y \in Years(now) : YearEndPriceRaises(ph, y))
             THEN "KeyError"                                          \* 108
        ELSE IF ticker_symbol \in {"actual", "as_of", "code/year"}
             THEN "ValueError"                                        \* 458-462
        ELSE "none"

\* the assignments result_df.loc[label] = pd.Series(...), in program order
RowAssignments(p, now) ==
    << <<"EPS", eps_series(p, now)>>,                                              \* 194
       <<"totalRevenue",
         Put(Merge(NoneYears(now), total_rev(p, now)), Actual, Info(p, "totalRevenue"))>>,  \* 208
       <<"costOfRevenue", Put(Merge(NoneYears(now), cost_rev(p, now)), Actual, NoneV)>>,    \* 209
       <<"operatingExpense",
         Put(Merge(NoneYears(now), operating_exp(p, now)), Actual, Info(p, "operatingMargins"))>>, \* 223
       <<"netIncome",
         Put(Merge(NoneYears(now), net_income_vals(p, now)), Actual, NetIncomeActual(p))>>, \* 224
       <<"ROE", roe_data(p, now)>>,                                                \* 231
       <<"profitMargin", profit_data(p, now)>>,                                    \* 247
       <<"dividend_and_split", divsplit_series(p, now)>>,                          \* 263
       <<"payoutRatio", payout(p, now)>>,                                          \* 279
       <<"marketCap", marketcap(p, now)>>,                                         \* 290
       <<"beta", beta_data(p, now)>>,                                              \* 316
       <<"peRatio", ActualOnly(now, Info(p, "trailingPE"))>>,                      \* 317
       <<"trailingPE", ActualOnly(now, Info(p, "trailingPE"))>>,                   \* 318
       <<"forwardPE", ActualOnly(now, Info(p, "forwardPE"))>>,                     \* 319
       <<"forwardDividendRate",
         ActualOnly(now, PyOr(Info(p, "forwardDividendRate"), Info(p, "dividendRate")))>>,  \* 320
       <<"52WeekRange", range_data(p, now)>>,                                      \* 341
       <<"cash cash equivalence", cash_eq(p, now)>>,                               \* 440
       <<"total assets", total_assets(p, now)>>,
       <<"total liabilities", total_liabilities(p, now)>>,
       <<"working capital", working_cap(p, now)>>,
       <<"invested capital", invested_cap(p, now)>>,
       <<"total debts", total_debts(p, now)>>,
       <<"ordinary shared number", ordinary_shares(p, now)>>,
       <<"net tangible assets", net_tangible_assets(p, now)>> >>                   \* 447

RECURSIVE NewLabels(_, _)
\* the labels of the assignments that index lacks, each once, in the order of
\* their first assignment
NewLabels(index, assignments) ==
    IF assignments = <<>> THEN <<>>
    ELSE IF Positions(index, Head(assignments)[1]) # {}
         THEN NewLabels(index, Tail(assignments))
         ELSE <<Head(assignments)[1]>>
              \o NewLabels(Append(index, Head(assignments)[1]), Tail(assignments))

\* the assignments, by position, to a label
AssignmentsTo(assignments, label) ==
    {k \in 1..Len(assignments) : assignments[k][1] = label}

\* df with the rows of `index`, each holding the Series of the last assignment
\* to its label, or what df has there
RowsSet(df, index, assignments) ==
    [df EXCEPT
        !.index = index,
        !.data = [i \in 1..Len(index) |->
            IF AssignmentsTo(assignments, index[i]) = {} THEN df.data[i]
            ELSE AlignedRow(df,
                    PdSeries(assignments[Max(AssignmentsTo(assignments, index[i]))][2]))]]

\* df after  df.loc[label] = pd.Series(d)  for each <<label, d>> of the
\* assignments in order: an unknown label appends a row, and the last
\* assignment to a label is the one that stays
ApplyRows(df, assignments) ==
    RowsSet(df, df.index \o NewLabels(df.index, assignments), assignments)

\* YEARS_TO_EXTRACT + ['actual'], lines 154 and 450
cols_order(now) ==
    [i \in 1..Len(YEARS_TO_EXTRACT(now)) |-> IntCol(YEARS_TO_EXTRACT(now)[i])] \o <<Actual>>

\* datetime.now().strftime("%Y-%m-%d"); the run is on 30 June
current_date_str(now) == NatToStr(now) \o "-06-30"

\* line 460
as_of_value(p, now) ==
    Str(current_date_str(now) \o " | " \o PyStr(Info(p, "regularMarketPrice")))

\* lines 449-455 without the reindex of line 451
OrderedTable_NoReindex(df, now) == DfSelectColumns(df, cols_order(now))

\* lines 449-455
OrderedTable(df, now) == DfSelectColumns(DfReindex(df, CSV_ROW_NAMES), cols_order(now))

\* lines 457-462
WithMetadata(df, ticker_symbol, p, now) ==
    LET a == DfInsert(df, 0, StrCol(ticker_symbol), [i \in 1..Len(df.index) |-> NAV])
        b == DfInsert(a, 1, StrCol("as_of"), [i \in 1..Len(df.index) |-> as_of_value(p, now)])
    IN  DfInsert(b, 2, StrCol("code/year"), [i \in 1..Len(df.index) |-> Str(df.index[i])])

\* lines 153-464, when nothing raises
ResultTable(ticker_symbol, p, now) ==
    WithMetadata(
        OrderedTable(ApplyRows(DfNew(CSV_ROW_NAMES, cols_order(now)), RowAssignments(p, now)), now),
        ticker_symbol, p, now)

\* None, or the table
get_annual_fundamentals(ticker_symbol, p, now) ==
    IF AssemblyException(ticker_symbol, p, now) # "none" \/ FetchFailure(p)
    THEN NoneV
    ELSE ResultTable(ticker_symbol, p, now)

\* what get_annual_fundamentals logs besides its info line: the error of line
\* 150, the exception of line 468, or nothing
AssemblyLog(ticker_symbol, p, now) ==
    IF AssemblyException(ticker_symbol, p, now) # "none" THEN "exception"
    ELSE IF FetchFailure(p) THEN "error" ELSE "none"

-----------------------------------------------------------------------------
(* file_writer.py: number formats *)

\* round to the nearest integer, ties to even, of a number that is not negative
RoundHalfEven(v) ==
    LET q == v.n \div v.d
        r == v.n % v.d
    IN  IF 2 * r < v.d THEN q
        ELSE IF 2 * r > v.d THEN q + 1
        ELSE IF q % 2 = 0 THEN q ELSE q + 1

RECURSIVE Pow10(_)
Pow10(k) == IF k = 0 THEN 1 ELSE 10 * Pow10(k - 1)

RECURSIVE ZeroPad(_, _)
ZeroPad(s, width) == IF Len(s) >= width THEN s ELSE ZeroPad("0" \o s, width)

RECURSIVE Commas(_)
\* the digits of a number with a comma every three
Commas(digits) ==
    IF Len(digits) <= 3 THEN digits
    ELSE Commas(SubSeq(digits, 1, Len(digits) - 3)) \o ","
         \o SubSeq(digits, Len(digits) - 2, Len(digits))

\* f"{v:,.2f}" (comma) or f"{v:.1f}": a fixed number of decimals
Fixed(v, places, comma) ==
    With2(RoundHalfEven(Mul([v EXCEPT !.n = Abs(v.n)], Num(Pow10(places)))), Pow10(places),
        LAMBDA scaled, unit :
            (IF v.n < 0 THEN "-" ELSE "")
            \o With(NatToStr(scaled \div unit),
                    LAMBDA whole : IF comma THEN Commas(whole) ELSE whole)
            \o "." \o ZeroPad(NatToStr(scaled % unit), places))

RECURSIVE DigitsValue(_)
DigitsValue(s) ==
    IF Len(s) = 0 THEN 0
    ELSE 10 * DigitsValue(SubSeq(s, 1, Len(s) - 1)) + DigitValue(Char(s, Len(s)))

\* float(s) of a text of digits with at most one point; None where float()
\* raises ValueError
ParseFloat(s) ==
    With(StrStrip(s), LAMBDA t :
    With(Find(t, "."), LAMBDA dot :
    With2(IF dot = 0 THEN t ELSE SubSeq(t, 1, dot - 1),
          IF dot = 0 THEN "" ELSE SubSeq(t, dot + 1, Len(t)),
        LAMBDA whole, frac :
            IF Len(whole) + Len(frac) = 0 \/ ~IsDigits(whole \o frac) THEN NoneV
            ELSE Rat(DigitsValue(whole \o frac), Pow10(Len(frac))))))

\* float() of each text of a sequence
ParseAll(texts) == [i \in 1..Len(texts) |-> ParseFloat(texts[i])]

\* float(val): the number itself; of a str, its parse
ToFloat(val) ==
    CASE val.t = "num" -> val
      [] val.t = "str" -> ParseFloat(val.s)
      [] OTHER -> NoneV

\* the test  val is None or (isinstance(val, float) and pd.isna(val))
IsNoneOrNaN(val) == val.t \in {"None", "NaN"}

\* lines 29-42 without the test of line 30
\* lines 32-42, v being float(val), None where it raises
ScaledText(val, v, scale) ==
    IF v = NoneV THEN PyStr(val)
    ELSE Fixed(IF scale = "M" THEN Div(v, Num(1000000))
               ELSE IF scale = "B" THEN Div(v, Num(1000000000))
               ELSE v, 2, TRUE)
         \o (IF scale = "M" THEN " M" ELSE IF scale = "B" THEN " B" ELSE "")

_format_number_for_human_NoNullTest(val, scale) == ScaledText(val, ToFloat(val), scale)

\* lines 29-42
_format_number_for_human(val, scale) ==
    IF IsNoneOrNaN(val) THEN "" ELSE ScaledText(val, ToFloat(val), scale)

\* lines 44-60
_format_52week_range(val) ==
    IF IsNoneOrNaN(val) THEN ""
    ELSE
        With(PyStr(val), LAMBDA s :
            \* float() of each of s.split('-')
            With(ParseAll(Split(s, "-")), LAMBDA parts :
                    IF \E i \in 1..Len(parts) : i <= 2 /\ parts[i] = NoneV THEN s
                    ELSE Join([i \in 1..(IF Len(parts) >= 2 THEN 2 ELSE 1) |->
                                Fixed(parts[i], 1, FALSE)], "-")))

\* lines 62-68
_format_percent(val) ==
    IF IsNoneOrNaN(val) THEN ""
    ELSE With(ToFloat(val), LAMBDA v :
            IF v = NoneV THEN PyStr(val)
            ELSE Fixed(Mul(v, Num(100)), 2, FALSE) \o "%")

\* the text csv.writer puts in a cell: '' for None, str(value) otherwise
CsvCell(out) == IF out.t = "None" THEN "" ELSE PyStr(out)

\* out = '' if pd.isna(val) else val, as written
RawCell(val) == IF IsNa(val) THEN "" ELSE CsvCell(val)

-----------------------------------------------------------------------------
(* file_writer.py: _write_grouped_csv, lines 70-190.  A CSV file is the    *)
(* sequence of its rows, a row the sequence of the texts of its cells.     *)

OUTPUT_DIRECTORY == "output/"

\* years + ['actual'] of lines 24-25, as column keys and as header cells
WriterCols(now) == cols_order(now)
ColText(c) == IF c.t = "int" THEN NatToStr(c.v) ELSE c.s

HasRow(df, m) == Positions(df.index, m) # {}
HasCol(df, c) == Positions(df.columns, c) # {}

\* df.at[m, c] if m in df.index else None
CellOrNone(df, m, c) == IF HasRow(df, m) THEN DfAt(df, m, c) ELSE NoneV

\* lines 74-92: [ticker, date_cell, price_cell]
HeaderRow(df, ticker) ==
    LET as_of_raw == IF HasCol(df, StrCol("as_of")) /\ Len(df.index) > 0
                     THEN df.data[1][Min(Positions(df.columns, StrCol("as_of")))]
                     ELSE Str("")
        bar == IF as_of_raw.t = "str" THEN Find(as_of_raw.s, "|") ELSE 0
    IN  IF bar # 0
        THEN <<ticker,
               StrStrip(SubSeq(as_of_raw.s, 1, bar - 1)),
               StrStrip(SubSeq(as_of_raw.s, bar + 1, Len(as_of_raw.s)))>>
        ELSE <<ticker, "", "">>

rep_metrics ==
    <<"marketCap", "beta", "peRatio", "forwardDividendYield", "EPS", "52WeekRange",
      "trailingPE", "forwardPE", "profitMargin", "payoutRatio", "ROE">>
fin_metrics ==
    <<"totalRevenue", "totalRevenueChange", "costOfRevenue", "operatingExpense",
      "netIncome", "EBITDA", "net debts over EBITDA">>
bs_metrics ==
    <<"cash cash equivalence", "total assets", "total liabilities", "working capital",
      "invested capital", "net debts", "ordinary shared number", "net tangible assets">>

\* lines 108-125
RepCell(m, val, human_readable) ==
    IF human_readable
    THEN IF m \in {"marketCap"} THEN _format_number_for_human(val, "M")
         ELSE IF m \in {"totalRevenue", "costOfRevenue"} THEN _format_number_for_human(val, "M")
         ELSE IF m \in {"operatingExpense", "netIncome"} THEN _format_number_for_human(val, "M")
         ELSE IF m \in {"profitMargin", "ROE", "payoutRatio", "forwardDividendYield"}
              THEN _format_percent(val)
         ELSE IF m \in {"EPS", "trailingPE", "forwardPE", "beta", "peRatio"}
              THEN _format_number_for_human(val, "none")
         ELSE IF m = "52WeekRange" THEN _format_52week_range(val)
         ELSE (IF IsNa(val) THEN "" ELSE PyStr(val))
    ELSE RawCell(val)

\* lines 165-170
FinCell(m, val, human_readable) ==
    IF human_readable /\ m \in {"totalRevenue", "costOfRevenue", "operatingExpense",
                                "netIncome", "EBITDA"}
    THEN _format_number_for_human(val, "M")
    ELSE IF human_readable /\ m \in {"totalRevenueChange", "net debts over EBITDA"}
    THEN _format_percent(val)
    ELSE RawCell(val)

\* lines 185-188
BsCell(m, val, human_readable) ==
    IF human_readable /\ m \in {"cash cash equivalence", "total assets", "invested capital",
                                "net debts", "net tangible assets", "total liabilities",
                                "working capital"}
    THEN _format_number_for_human(val, "M")
    ELSE RawCell(val)

\* one row per metric of a section: the name, then a cell per column
SectionRows(df, now, metrics, human_readable, Cell(_, _, _)) ==
    [i \in 1..Len(metrics) |->
        <<metrics[i]>> \o
        [j \in 1..Len(WriterCols(now)) |->
            Cell(metrics[i], CellOrNone(df, metrics[i], WriterCols(now)[j]), human_readable)]]

\* lines 134-140: (div, splits) of a dividend_and_split cell
DividendOf(raw) == IF raw.t = "dict" THEN DictGet(raw.d, "dividends") ELSE NoneV
SplitsOf(raw) == IF raw.t = "dict" THEN DictGet(raw.d, "splits") ELSE NoneV

\* lines 142 and 149
DividendCell(div, human_readable) ==
    IF IsNa(div) \/ div = NoneV THEN ""
    ELSE IF human_readable THEN _format_number_for_human(div, "none")
    ELSE CsvCell(div)

\* lines 144-147 and 150-153
SplitsCell(splits) ==
    IF splits.t = "list" THEN (IF splits.items # <<>> THEN Join(splits.items, ";") ELSE "")
    ELSE IF splits = NoneV THEN "" ELSE PyStr(splits)

\* line 134
DividendRaw(df, c) == CellOrNone(df, "dividend_and_split", c)

\* lines 131-155
DividendRows(df, now, human_readable) ==
    << <<"dividends">> \o
         [j \in 1..Len(WriterCols(now)) |->
            DividendCell(DividendOf(DividendRaw(df, WriterCols(now)[j])), human_readable)],
       <<"splits">> \o
         [j \in 1..Len(WriterCols(now)) |->
            SplitsCell(SplitsOf(DividendRaw(df, WriterCols(now)[j])))] >>

HeaderCells(now) == [j \in 1..Len(WriterCols(now)) |-> ColText(WriterCols(now)[j])]

\* the rows _write_grouped_csv writes
_write_grouped_csv(df, ticker, now, human_readable) ==
    << HeaderRow(df, ticker), <<>>, <<"Valores representativos">> \o HeaderCells(now) >>
    \o SectionRows(df, now, rep_metrics, human_readable, RepCell)
    \o DividendRows(df, now, human_readable)
    \o << <<>>, <<"financials">> \o HeaderCells(now) >>
    \o SectionRows(df, now, fin_metrics, human_readable, FinCell)
    \o << <<>>, <<"balance sheets">> \o HeaderCells(now) >>
    \o SectionRows(df, now, bs_metrics, human_readable, BsCell)

\* df.at raises KeyError when the table lacks a column of cols_order
WriterRaises(df, now) ==
    \E j \in 1..Len(WriterCols(now)) : ~HasCol(df, WriterCols(now)[j])

-----------------------------------------------------------------------------
(* file_writer.py: save_to_csv, lines 9-22 and 192-205 *)

\* the positions at which old occurs in s
Occurrences(s, old) ==
    {i \in 1..(Len(s) - Len(old) + 1) : SubSeq(s, i, i + Len(old) - 1) = old}

RECURSIVE StrReplace(_, _, _)
\* s.replace(old, new), old not empty: the leftmost occurrence, then the rest
StrReplace(s, old, new) ==
    IF Occurrences(s, old) = {} THEN s
    ELSE SubSeq(s, 1, Min(Occurrences(s, old)) - 1) \o new
         \o StrReplace(SubSeq(s, Min(Occurrences(s, old)) + Len(old), Len(s)), old, new)

\* datetime.now().strftime("%Y%m%d_%H%M%S"); the run is on 30 June at noon
timestamp(now) == NatToStr(now) \o "0630_120000"

\* lines 20-21
filepath(ticker, now) ==
    OUTPUT_DIRECTORY \o ticker \o "_annual_data_" \o timestamp(now) \o ".csv"

raw_path(ticker, now) == StrReplace(filepath(ticker, now), ".csv", "_raw.csv")
readable_path(ticker, now) == StrReplace(filepath(ticker, now), ".csv", "_readable.csv")

CsvFile(path, ticker, rows) == [path |-> path, ticker |-> ticker, rows |-> rows]

\* what open() and the writes of one file leave on disk: the whole file, or,
\* when df.at raises, the rows written before the first metric row
WrittenRows(df, ticker, now, human_readable) ==
    With(_write_grouped_csv(df, ticker, now, human_readable),
        LAMBDA rows : IF WriterRaises(df, now) THEN SubSeq(rows, 1, 3) ELSE rows)

\* The files on disk after save_to_csv.  io says where the file system fails:
\* "ok", "makedirs", "open_raw" or "open_readable".
SavedFiles(df, ticker, now, io) ==
    {CsvFile(raw_path(ticker, now), ticker, WrittenRows(df, ticker, now, FALSE)) :
        x \in {y \in {"raw"} : io \notin {"makedirs", "open_raw"}}}
    \cup
    {CsvFile(readable_path(ticker, now), ticker, WrittenRows(df, ticker, now, TRUE)) :
        x \in {y \in {"readable"} :
                    io \notin {"makedirs", "open_raw", "open_readable"} /\ ~WriterRaises(df, now)}}

\* a logging call
LogRecord(level, event, ticker) == [level |-> level, event |-> event, ticker |-> ticker]

\* The exception raised inside the try of line 13, "none" if there is none:
\* os.makedirs and open raise OSError, df.at raises KeyError while the raw
\* file is written.
SaveException(df, now, io) ==
    IF io \in {"makedirs", "open_raw"} THEN "OSError"
    ELSE IF WriterRaises(df, now) THEN "KeyError"
    ELSE IF io = "open_readable" THEN "OSError"
    ELSE "none"

\* the logging calls of save_to_csv: lines 195 and 200, or line 204
WriterLog(df, ticker, now, io) ==
    (IF io \in {"makedirs", "open_raw"} \/ WriterRaises(df, now) THEN <<>>
     ELSE <<LogRecord("info", "raw_saved", ticker)>>)
    \o (IF SaveException(df, now, io) = "none"
        THEN <<LogRecord("info", "readable_saved", ticker)>>
        ELSE <<LogRecord("error", "csv_save_error", ticker)>>)

\* the return value were there no except clause at line 203
save_to_csv_Uncaught(df, ticker, now, io) ==
    IF SaveException(df, now, io) # "none"
    THEN [t |-> "raise", kind |-> SaveException(df, now, io)]
    ELSE [t |-> "tuple", raw_path |-> raw_path(ticker, now),
          readable_path |-> readable_path(ticker, now)]

\* the return value: the two paths, or None after the except of line 203
save_to_csv(df, ticker, now, io) ==
    IF io # "ok" \/ WriterRaises(df, now) THEN NoneV
    ELSE [t |-> "tuple", raw_path |-> raw_path(ticker, now),
          readable_path |-> readable_path(ticker, now)]

IoOutcomes == {"ok", "makedirs", "open_raw", "open_readable"}

-----------------------------------------------------------------------------
(* What a harness leaves alone: the state of main() *)

HarnessIdle ==
    /\ argv = NoneV /\ fs = NoneV /\ tickers = <<>> /\ idx = 0
    /\ invoked = <<>> /\ fetchlog = <<>> /\ csv_files = {} /\ log = <<>>
    /\ escaped = FALSE

MainUnchanged ==
    UNCHANGED <<argv, fs, tickers, idx, invoked, fetchlog, csv_files, log,
                escaped, now_year>>

-----------------------------------------------------------------------------
(* Provider data for the harnesses: what yfinance may hand over for one    *)
(* ticker.  Statement columns are the fiscal year ends of START_YEAR and   *)
(* the year after, newest first, as yfinance orders them.                  *)

YearSpan == 1

CurrentYears == START_YEAR..(START_YEAR + YearSpan)

StmtColumns == <<Ts(START_YEAR + 1), Ts(START_YEAR)>>

\* a cell of the START_YEAR column: missing, zero, or a value
CellGrid(v) == {NaN, Num(0), Num(v)}

IncomeStmt(ni, tr, eps) ==
    Df(<<"Net Income", "Total Revenue", "Basic EPS", "Operating Expense", "Basic Average Shares">>,
       StmtColumns,
       << <<Num(6), ni>>, <<Num(12), tr>>, <<Num(3), eps>>, <<Num(2), NaN>>,
          <<Num(100), Num(100)>> >>)

BalanceSheet(equity, tcl) ==
    Df(<<"Total Stockholder Equity", "Total Assets", "Total Liab",
         "Total Current Liabilities", "Total Current Assets", "Cash", "Long Term Debt">>,
       StmtColumns,
       << <<Num(4), equity>>, <<Num(20), Num(16)>>, <<Num(9), Num(8)>>,
          <<Num(3), tcl>>, <<Num(7), Num(6)>>, <<Num(2), NaN>>, <<NaN, Num(5)>> >>)

PriceColumns == {"Close", "Dividends", "Stock Splits", "High", "Low"}

PriceRow(y, d, close, dividend, split) ==
    [year |-> y, day |-> d,
     v |-> [k \in PriceColumns |->
                CASE k = "Close" -> Num(close)
                  [] k = "Dividends" -> dividend
                  [] k = "Stock Splits" -> Num(split)
                  [] k = "High" -> Num(close + 1)
                  [] k = "Low" -> Num(close - 1)]]

\* three trading days in START_YEAR, one the year after
PriceRows(dividend) ==
    << PriceRow(START_YEAR, 1, 10, Num(0), 0),
       PriceRow(START_YEAR, 2, 12, dividend, 0),
       PriceRow(START_YEAR, 3, 11, Num(0), 2),
       PriceRow(START_YEAR + 1, 1, 12, Num(0), 0) >>

Restrict(f, S) == [k \in S |-> f[k]]

\* a price history with the columns `columns` only
PriceHistory(columns, rows) ==
    PriceDf(TRUE, columns, [i \in 1..Len(rows) |-> [rows[i] EXCEPT !.v = Restrict(@, columns)]])

\* pd.DataFrame(): no rows, no columns, a plain index
BareFrame == PriceDf(FALSE, {}, <<>>)

MarketHistory ==
    PriceDf(TRUE, PriceColumns,
            << PriceRow(START_YEAR, 1, 4, Num(0), 0),
               PriceRow(START_YEAR, 2, 5, Num(0), 0),
               PriceRow(START_YEAR, 3, 4, Num(0), 0),
               PriceRow(START_YEAR + 1, 1, 5, Num(0), 0) >>)

InfoFields ==
    {"regularMarketPrice", "sharesOutstanding", "trailingEps", "totalRevenue",
     "operatingMargins", "netIncomeToCommon", "netIncome", "returnOnEquity",
     "profitMargins", "lastDividendValue", "dividendRate", "forwardDividendRate",
     "lastSplitFactor", "lastSplitDate", "payoutRatio", "marketCap", "beta",
     "trailingPE", "forwardPE", "fiftyTwoWeekLow", "fiftyTwoWeekHigh"}

InfoFull ==
    [k \in InfoFields |->
        CASE k = "regularMarketPrice" -> Rat(25, 2)
          [] k = "sharesOutstanding" -> Num(1000000)
          [] k = "marketCap" -> Num(12500000)
          [] k = "lastSplitFactor" -> Str("2:1")
          [] k \in {"returnOnEquity", "profitMargins", "payoutRatio", "operatingMargins"} -> Rat(1, 4)
          [] k = "netIncomeToCommon" -> Num(0)
          [] OTHER -> Num(7)]

\* a summary without the price and the net income fields
InfoSparse ==
    Restrict(InfoFull, InfoFields \ {"regularMarketPrice", "netIncomeToCommon", "netIncome",
                                     "fiftyTwoWeekLow", "lastSplitFactor"})

Provider(network_error, financials, balance_sheet, info, history, market) ==
    [network_error |-> network_error, financials |-> financials,
     balance_sheet |-> balance_sheet,
     earnings_attrs |-> <<financials, NoneV, NoneV, NoneV>>,
     info |-> info, history |-> history, market |-> market]

HistorySamples ==
    {NoneV, BareFrame, PriceHistory(PriceColumns, <<>>), PriceHistory(PriceColumns, PriceRows(Num(1)))}
    \cup {PriceHistory(PriceColumns \ {c}, PriceRows(Num(1))) : c \in PriceColumns}

\* every way an input can be absent or empty
SparseProviders ==
    {Provider(FALSE, f, b, i, h, m) :
        f \in {NoneV, EmptyDf, IncomeStmt(Num(5), Num(10), Num(2))},
        b \in {NoneV, EmptyDf, BalanceSheet(Num(4), Num(2))},
        i \in {NoneV, InfoFull, InfoSparse},
        h \in HistorySamples,
        m \in {NoneV, MarketHistory}}

\* every way an input of a ratio can be missing or zero
RatioProviders ==
    {Provider(FALSE, IncomeStmt(ni, tr, eps), BalanceSheet(eq, Num(2)), InfoFull,
              PriceHistory(PriceColumns, PriceRows(dv)), MarketHistory) :
        ni \in CellGrid(5), tr \in CellGrid(10), eps \in CellGrid(2), eq \in CellGrid(4),
        dv \in {Num(0), Num(1)}}

\* the provider cannot be reached
UnreachableProviders ==
    {Provider(TRUE, NoneV, NoneV, NoneV, NoneV, NoneV)}

\* the labels a provider may give the two period columns of a statement:
\* dates, integer years, year strings, or a text that is no date
ColumnLabelings ==
    {<<IntCol(START_YEAR + 1), IntCol(START_YEAR)>>,
     <<StrCol(NatToStr(START_YEAR + 1)), StrCol(NatToStr(START_YEAR))>>,
     <<StrCol("TTM"), Ts(START_YEAR)>>}

WithColumns(df, columns) == [df EXCEPT !.columns = columns]

\* statements whose period columns are labelled in each of these ways
ColumnLabelProviders ==
    {Provider(FALSE, WithColumns(IncomeStmt(Num(5), Num(10), Num(2)), cols),
              WithColumns(BalanceSheet(Num(4), Num(2)), cols), InfoFull,
              PriceHistory(PriceColumns, PriceRows(Num(1))), MarketHistory) :
        cols \in ColumnLabelings}

\* a benchmark with two trading days in START_YEAR: one return
TwoDayMarket ==
    PriceDf(TRUE, PriceColumns,
            << PriceRow(START_YEAR, 1, 4, Num(0), 0),
               PriceRow(START_YEAR, 2, 5, Num(0), 0) >>)

\* a benchmark whose close never moves: its returns are 0
FlatMarket ==
    PriceDf(TRUE, PriceColumns,
            << PriceRow(START_YEAR, 1, 4, Num(0), 0),
               PriceRow(START_YEAR, 2, 4, Num(0), 0),
               PriceRow(START_YEAR, 3, 4, Num(0), 0),
               PriceRow(START_YEAR + 1, 1, 4, Num(0), 0) >>)

\* benchmarks with two, one and no return in common with the stock, and one
\* without variance, with and without a beta in the summary
BetaProviders ==
    {Provider(FALSE, IncomeStmt(Num(5), Num(10), Num(2)), BalanceSheet(Num(4), Num(2)), i,
              PriceHistory(PriceColumns, PriceRows(Num(1))), m) :
        i \in {NoneV, InfoFull}, m \in {MarketHistory, TwoDayMarket, FlatMarket}}

\* the table without the rows of these labels
KeptRows(df, missing) ==
    SelectSeq([j \in 1..Len(df.index) |-> j], LAMBDA j : df.index[j] \notin missing)

WithoutRows(df, missing) ==
    Df([k \in 1..Len(KeptRows(df, missing)) |-> df.index[KeptRows(df, missing)[k]]],
       df.columns,
       [k \in 1..Len(KeptRows(df, missing)) |-> df.data[KeptRows(df, missing)[k]]])

\* the line items of the invested capital
InvestedCapitalItems == {"Total Assets", "Total Liab", "Total Current Liabilities", "Cash"}

\* balance sheets that lack any of the line items of the invested capital,
\* with and without a value of the current liabilities in START_YEAR
BalanceProviders ==
    {Provider(FALSE, IncomeStmt(Num(5), Num(10), Num(2)),
              WithoutRows(BalanceSheet(Num(4), tcl), missing), InfoFull,
              PriceHistory(PriceColumns, PriceRows(Num(1))), MarketHistory) :
        tcl \in {NaN, Num(2)}, missing \in SUBSET InvestedCapitalItems}

Providers ==
    SparseProviders \cup RatioProviders \cup UnreachableProviders \cup ColumnLabelProviders
    \cup BetaProviders \cup BalanceProviders

-----------------------------------------------------------------------------
(* main.py: run_pipeline (lines 10-30) and main (lines 32-78)              *)

\* what the provider may hand over for a ticker of a run
MainProviders ==
    {Provider(TRUE, NoneV, NoneV, NoneV, NoneV, NoneV),
     Provider(FALSE, NoneV, NoneV, InfoFull, NoneV, NoneV),
     Provider(FALSE, EmptyDf, BalanceSheet(Num(4), Num(2)), InfoFull,
              PriceHistory(PriceColumns, <<>>), MarketHistory),
     Provider(FALSE, IncomeStmt(Num(5), Num(10), Num(2)), BalanceSheet(Num(4), Num(2)),
              InfoFull, PriceHistory(PriceColumns, PriceRows(Num(1))), MarketHistory),
     Provider(FALSE, EmptyDf, NoneV, InfoSparse,
              PriceHistory(PriceColumns, PriceRows(Num(0))), NoneV)}

\* line 19: three names are bound to what get_annual_fundamentals returned.
\* None cannot be unpacked (TypeError); a DataFrame unpacks into its column
\* labels, and only three of them fit (ValueError otherwise).
UnpackError(value) ==
    IF value = NoneV THEN "TypeError"
    ELSE IF Len(value.columns) # 3 THEN "ValueError"
    ELSE "none"

\* what one get_annual_fundamentals call leaves in fetchlog
FetchRecord(ticker, p, value) ==
    [ticker |-> ticker,
     income_missing |-> (p.financials = NoneV \/ DfEmpty(p.financials)),
     price_missing |-> (p.history = NoneV \/ PriceEmpty(p.history)),
     returned |-> IF value = NoneV THEN "None"
                  ELSE IF DfEmpty(value) THEN "empty" ELSE "table"]

\* the logging calls of get_annual_fundamentals: line 116, then 150 or 468
FetchLogLines(ticker, p, now) ==
    <<LogRecord("info", "connecting", ticker)>>
    \o With(AssemblyLog(ticker, p, now), LAMBDA logged :
            IF logged = "error" THEN <<LogRecord("error", "incomplete_history", ticker)>>
            ELSE IF logged = "exception" THEN <<LogRecord("error", "unexpected_error", ticker)>>
            ELSE <<>>)

\* run_pipeline(ticker) against provider data p.  raised: the exception that
\* leaves it, "none" when it returns; files: what save_to_csv wrote; log: its
\* logging calls.  After an unpacking into three column labels data_df is a
\* str, and data_df.empty (line 22) raises AttributeError.
run_pipeline(ticker, p, now) ==
    With(get_annual_fundamentals(ticker, p, now), LAMBDA value :
        [raised |-> IF UnpackError(value) # "none" THEN UnpackError(value)
                    ELSE "AttributeError",
         files |-> {},
         log |-> <<LogRecord("info", "start", ticker)>> \o FetchLogLines(ticker, p, now),
         fetch |-> FetchRecord(ticker, p, value)])

\* line 64
StrippedLines(lines) == [i \in 1..Len(lines) |-> StrStrip(lines[i])]

RECURSIVE SelectTickers(_)
\* line 65: [ln for ln in lines if ln and not ln.startswith('#')]
SelectTickers(lines) ==
    IF lines = <<>> THEN <<>>
    ELSE (IF Head(lines) # "" /\ ~StartsWith(Head(lines), "#")
          THEN <<Head(lines)>> ELSE <<>>)
         \o SelectTickers(Tail(lines))

\* bool(s) of an argument that may be None
ArgGiven(a) == Truthy(a)

MaxLines == 3

\* the lines f.readlines() may return
LinePool == {"\n", "AAPL\n", " MSFT ", "# GOOG\n"}

\* the file at the path of --tickers-file: None when there is no such file
\* (or no such argument)
TextFile(lines) == [t |-> "file", lines |-> lines]

TickerFiles == {NoneV} \cup {TextFile(l) : l \in UNION {[1..n -> LinePool] : n \in 0..MaxLines}}

Arguments ==
    {[ticker |-> NoneV, tickers_file |-> NoneV],
     [ticker |-> Str("AAPL"), tickers_file |-> NoneV],
     [ticker |-> NoneV, tickers_file |-> Str("tickers.txt")],
     [ticker |-> Str("AAPL"), tickers_file |-> Str("tickers.txt")]}

Init ==
    /\ pc = "main"
    /\ argv \in Arguments
    /\ fs \in (IF ArgGiven(argv.tickers_file) THEN TickerFiles ELSE {NoneV})
    /\ tickers = <<>>
    /\ idx = 0
    /\ invoked = <<>>
    /\ fetchlog = <<>>
    /\ csv_files = {}
    /\ log = <<>>
    /\ escaped = FALSE
    /\ now_year \in CurrentYears
    /\ call = NoneV
    /\ ret = NoneV

\* the tickers a run can be started with
RunTickers == {StrStrip(l) : l \in LinePool} \cup {a.ticker.s : a \in {b \in Arguments : b.ticker # NoneV}}

\* run_pipeline for every ticker, provider and year of a run
PipelineRuns ==
    [t \in RunTickers, p \in MainProviders, now \in CurrentYears |-> run_pipeline(t, p, now)]

\* lines 61-68 and 71-72: open the file, build the list, stop on a missing
\* file or an empty list
ReadTickersFile ==
    /\ pc = "main"
    /\ ArgGiven(argv.tickers_file)
    /\ IF fs = NoneV
       THEN /\ log' = Append(log, LogRecord("error", "tickers_file_not_found", ""))
            /\ pc' = "done"
            /\ UNCHANGED <<tickers, idx>>
       ELSE /\ tickers' = SelectTickers(StrippedLines(fs.lines))
            /\ IF tickers' = <<>>
               THEN /\ log' = Append(log, LogRecord("error", "no_valid_tickers", ""))
                    /\ pc' = "done"
                    /\ idx' = idx
               ELSE /\ pc' = "loop"
                    /\ idx' = 1
                    /\ log' = log
    /\ UNCHANGED <<argv, fs, invoked, fetchlog, csv_files, escaped, now_year, call, ret>>

\* lines 69-70 and 73-74: one iteration of the for loop, inside the try of
\* line 62.  An exception of run_pipeline is caught at line 73, after which
\* main returns.
RunBatchTicker ==
    /\ pc = "loop"
    /\ idx <= Len(tickers)
    /\ \E p \in MainProviders :
        \E r \in {PipelineRuns[tickers[idx], p, now_year]} :
            /\ invoked' = Append(invoked, tickers[idx])
            /\ fetchlog' = Append(fetchlog, r.fetch)
            /\ csv_files' = csv_files \cup r.files
            /\ IF r.raised # "none"
               THEN /\ log' = log \o r.log
                                \o <<LogRecord("error", "error_reading_tickers_file", "")>>
                    /\ pc' = "done"
                    /\ idx' = idx
               ELSE /\ log' = log \o r.log
                    /\ idx' = idx + 1
                    /\ pc' = IF idx + 1 > Len(tickers) THEN "done" ELSE "loop"
    /\ UNCHANGED <<argv, fs, tickers, escaped, now_year, call, ret>>

\* lines 75-76: a single ticker, outside any try
RunSingleTicker ==
    /\ pc = "main"
    /\ ~ArgGiven(argv.tickers_file)
    /\ ArgGiven(argv.ticker)
    /\ \E p \in MainProviders :
        \E r \in {PipelineRuns[argv.ticker.s, p, now_year]} :
            /\ invoked' = Append(invoked, argv.ticker.s)
            /\ fetchlog' = Append(fetchlog, r.fetch)
            /\ csv_files' = csv_files \cup r.files
            /\ log' = log \o r.log
            /\ escaped' = (r.raised # "none")
    /\ pc' = "done"
    /\ UNCHANGED <<argv, fs, tickers, idx, now_year, call, ret>>

\* lines 77-78
UsageError ==
    /\ pc = "main"
    /\ ~ArgGiven(argv.tickers_file)
    /\ ~ArgGiven(argv.ticker)
    /\ log' = Append(log, LogRecord("error", "usage", ""))
    /\ pc' = "done"
    /\ UNCHANGED <<argv, fs, tickers, idx, invoked, fetchlog, csv_files, escaped,
                   now_year, call, ret>>

Next == ReadTickersFile \/ RunBatchTicker \/ RunSingleTicker \/ UsageError

Spec == Init /\ [][Next]_vars

\* the run is a batch over a ticker file
BatchRun == ArgGiven(argv.tickers_file)

\* the files on disk that were written for a ticker
FilesOf(ticker) == {f \in csv_files : f.ticker = ticker}

\* C1: in a batch run, when get_annual_fundamentals returned its failure
\* value for a ticker, no CSV exists for that ticker and, once main is done,
\* run_pipeline has been invoked for every ticker of the list.
C1_BatchContinuesAfterFetchFailure ==
    (pc = "done" /\ BatchRun) =>
        \A i \in 1..Len(fetchlog) :
            fetchlog[i].returned = "None" =>
                /\ FilesOf(fetchlog[i].ticker) = {}
                /\ invoked = tickers

\* C2: whenever get_annual_fundamentals has produced a non-empty table for a
\* ticker, the raw and the readable CSV of that ticker are on disk by the end
\* of that ticker's run_pipeline, hence before the next ticker begins.
C2_TableIsWrittenBeforeNextTicker ==
    \A i \in 1..Len(fetchlog) :
        fetchlog[i].returned = "table" =>
            \E raw, readable \in FilesOf(fetchlog[i].ticker) :
                /\ raw.path = raw_path(fetchlog[i].ticker, now_year)
                /\ readable.path = readable_path(fetchlog[i].ticker, now_year)

\* C3: when the income statement is absent or empty and the price history is
\* absent or empty, get_annual_fundamentals returns no table and no CSV file
\* is written for the ticker.
C3_BothMissingIsFetchFailure ==
    \A i \in 1..Len(fetchlog) :
        (fetchlog[i].income_missing /\ fetchlog[i].price_missing) =>
            /\ fetchlog[i].returned = "None"
            /\ FilesOf(fetchlog[i].ticker) = {}

\* C3 witness: a reachable provider left both inputs empty, the assembler
\* logged the incomplete history and returned None, and nothing was written.
C3_Witness ==
    /\ pc = "done"
    /\ Len(fetchlog) = 1
    /\ fetchlog[1].income_missing /\ fetchlog[1].price_missing
    /\ fetchlog[1].returned = "None"
    /\ \E j \in 1..Len(log) : log[j].event = "incomplete_history"
    /\ csv_files = {}

\* C10: with --tickers-file, once main is done the tickers run_pipeline was
\* invoked with are the trimmed lines that are non-empty and do not start
\* with '#', in file order; with a missing file or no such line there is one
\* logged error, no fetch, and no exception leaves main.
C10_ProcessedAreTheListedTickers ==
    (pc = "done" /\ BatchRun) =>
        IF fs = NoneV \/ SelectTickers(StrippedLines(fs.lines)) = <<>>
        THEN /\ invoked = <<>>
             /\ fetchlog = <<>>
             /\ ~escaped
             /\ Len(log) = 1 /\ log[1].level = "error"
        ELSE invoked = SelectTickers(StrippedLines(fs.lines))

-----------------------------------------------------------------------------
(* The assembler and the writer applied to bounded provider data           *)
(* (SpecReport): fetch and assemble, then write.                           *)

InitReport ==
    /\ pc = "assemble"
    /\ HarnessIdle
    /\ now_year \in CurrentYears
    /\ call \in [ticker : {"AAPL"}, p : Providers]
    /\ ret = NoneV

Assemble ==
    /\ pc = "assemble"
    /\ \E table \in {get_annual_fundamentals(call.ticker, call.p, now_year)} :
           /\ ret' = [table |-> table,
                      exception |-> AssemblyException(call.ticker, call.p, now_year),
                      saved |-> NoneV,
                      io |-> NoneV]
           /\ pc' = IF table = NoneV THEN "report_done" ELSE "write"
    /\ UNCHANGED call
    /\ MainUnchanged

Write ==
    /\ pc = "write"
    /\ \E io \in IoOutcomes :
        /\ csv_files' = SavedFiles(ret.table, call.ticker, now_year, io)
        /\ log' = log \o WriterLog(ret.table, call.ticker, now_year, io)
        /\ ret' = [ret EXCEPT !.saved = save_to_csv(ret.table, call.ticker, now_year, io),
                              !.io = Str(io)]
    /\ pc' = "report_done"
    /\ UNCHANGED <<argv, fs, tickers, idx, invoked, fetchlog, escaped, now_year, call>>

NextReport == Assemble \/ Write

SpecReport == InitReport /\ [][NextReport]_vars

\* the assembler has returned
Assembled == pc \in {"write", "report_done"}

IncomeMissing == call.p.financials = NoneV \/ DfEmpty(call.p.financials)
PriceMissing == call.p.history = NoneV \/ PriceEmpty(call.p.history)

\* the columns a table is to have: the metadata, the years from START_YEAR to
\* the current year in ascending order, 'actual'
ExpectedColumns ==
    <<StrCol(call.ticker), StrCol("as_of"), StrCol("code/year")>>
    \o [i \in 1..(now_year - START_YEAR + 1) |-> IntCol(START_YEAR + i - 1)]
    \o <<StrCol("actual")>>

\* a table with the rows of CSV_ROW_NAMES in order, the expected columns, and
\* a cell for every row and column
CompleteTable(df) ==
    /\ IsDataFrame(df)
    /\ df.index = CSV_ROW_NAMES
    /\ df.columns = ExpectedColumns
    /\ Len(df.data) = Len(CSV_ROW_NAMES)
    /\ \A i \in 1..Len(df.data) : Len(df.data[i]) = Len(ExpectedColumns)

\* C4: whenever the income statement or the price history is non-empty,
\* get_annual_fundamentals returns a complete table, whatever else is missing
\* (balance sheet, summary fields, a column of the price history).
C4_PartialInputsYieldCompleteTable ==
    (Assembled /\ ~(IncomeMissing /\ PriceMissing)) =>
        /\ ret.table # NoneV
        /\ CompleteTable(ret.table)

\* C5: every table get_annual_fundamentals returns has exactly the rows of
\* CSV_ROW_NAMES in that order and exactly the columns ticker, as_of,
\* code/year, the years ascending, 'actual', with a cell for every pair.
C5_TableShape ==
    (Assembled /\ ret.table # NoneV) => CompleteTable(ret.table)

\* C5 witness: a table was returned for a provider without a balance sheet
\* and without summary fields, in a year after START_YEAR.
C5_Witness ==
    /\ Assembled
    /\ ret.table # NoneV
    /\ call.p.balance_sheet = NoneV
    /\ call.p.info = NoneV
    /\ now_year > START_YEAR
    /\ Len(ret.table.index) = Len(CSV_ROW_NAMES)

\* the cell of a metric row at a year of a returned table
YearCell(metric, y) == DfAt(ret.table, metric, IntCol(y))

SectionMetrics == SeqToSet(rep_metrics) \cup SeqToSet(fin_metrics) \cup SeqToSet(bs_metrics)

\* C8: in every CSV file written, raw or readable, each cell of a metric row
\* of the three sections whose table value is None or NaN is the empty string,
\* and so is each cell of the dividends and splits rows whose value is null.
C8_NullCellsAreEmpty ==
    \A f \in csv_files :
        \A r \in 1..Len(f.rows) :
            \A j \in 1..Len(WriterCols(now_year)) :
                LET row == f.rows[r]
                    c == WriterCols(now_year)[j]
                IN  Len(row) > 1 =>
                    /\ (row[1] \in SectionMetrics
                        /\ IsNa(CellOrNone(ret.table, row[1], c))) => row[j + 1] = ""
                    /\ (row[1] = "dividends"
                        /\ IsNa(DividendOf(CellOrNone(ret.table, "dividend_and_split", c))))
                       => row[j + 1] = ""
                    /\ (row[1] = "splits"
                        /\ IsNa(SplitsOf(CellOrNone(ret.table, "dividend_and_split", c))))
                       => row[j + 1] = ""

\* C8 witness: both files were written from a table with a null cell
\* (costOfRevenue at 'actual', a year without dividends) next to values.
C8_Witness ==
    /\ pc = "report_done"
    /\ Cardinality(csv_files) = 2
    /\ IsNa(DfAt(ret.table, "costOfRevenue", Actual))
    /\ NotNa(DfAt(ret.table, "marketCap", Actual))
    /\ IsNa(DfAt(ret.table, "EPS", IntCol(START_YEAR)))

\* C9: the first row of every CSV file written is [ticker, as-of date, as-of
\* price], and when the summary has no regularMarketPrice its third cell is
\* the empty string.
C9_HeaderPriceEmptyWithoutPrice ==
    \A f \in csv_files :
        /\ Len(f.rows[1]) = 3
        /\ f.rows[1][1] = f.ticker
        /\ f.rows[1][2] = current_date_str(now_year)
        /\ IsNa(Info(call.p, "regularMarketPrice")) => f.rows[1][3] = ""

\* two cells hold the same value, every null being the same
SameCell(a, b) == (IsNa(a) /\ IsNa(b)) \/ a = b

\* the calendar year a column label denotes: that of a date, or the integer
\* itself (0: neither)
DenotedYear(col) ==
    IF col.t = "ts" THEN col.year ELSE IF col.t = "int" THEN col.v ELSE 0

\* a column label of the income statement has no year
HasUndatedColumn ==
    \E j \in 1..Len(call.p.financials.columns) :
        _col_year(call.p.financials.columns[j]) = NoneV

\* C12: in a returned table, for every column of the income statement
\* labelled with a date in year Y or with the integer Y, Y a year of
\* YEARS_TO_EXTRACT, the totalRevenue and netIncome cells of column Y hold
\* the statement's values of that column; and a column label without a year
\* raises nothing.
C12_DateAndIntegerYearColumnsAgree ==
    (Assembled /\ IsDataFrame(call.p.financials) /\ ~DfEmpty(call.p.financials)) =>
        /\ HasUndatedColumn => ret.exception = "none"
        /\ ret.table # NoneV =>
           \A j \in 1..Len(call.p.financials.columns) :
              LET col == call.p.financials.columns[j]
              IN  DenotedYear(col) \in Years(now_year) =>
                    /\ SameCell(YearCell("totalRevenue", DenotedYear(col)),
                                safe_get_value(call.p.financials, "Total Revenue", col))
                    /\ SameCell(YearCell("netIncome", DenotedYear(col)),
                                safe_get_value(call.p.financials, "Net Income", col))

\* C13: in a returned table the 'actual' cell of the netIncome row is the
\* summary field netIncomeToCommon when that field is present and not null,
\* 0 included, and the summary field netIncome otherwise.
C13_NetIncomeActualPrefersToCommon ==
    (Assembled /\ ret.table # NoneV) =>
        SameCell(DfAt(ret.table, "netIncome", Actual),
                 IF NotNa(Info(call.p, "netIncomeToCommon"))
                 THEN Info(call.p, "netIncomeToCommon")
                 ELSE Info(call.p, "netIncome"))

\* years begins at first, ends at last, and goes up by one at every step
RunsFromTo(years, first, last) ==
    /\ Len(years) >= 1
    /\ years[1] = first
    /\ years[Len(years)] = last
    /\ \A i \in 1..(Len(years) - 1) : years[i + 1] = years[i] + 1

\* the year columns of a returned table: those between the three metadata
\* columns and 'actual'
TableYears(df) == [i \in 1..(Len(df.columns) - 4) |-> df.columns[i + 3]]

\* the year cells of a section header row of a CSV file
HeaderYears(row) == SubSeq(row, 2, Len(row) - 1)

Overlap(y) ==
    IF /\ IsDataFrame(call.p.history) /\ call.p.market # NoneV
       /\ "Close" \in call.p.history.columns /\ "Close" \in call.p.market.columns
       /\ RowsOfYear(call.p.history, y) # {} /\ RowsOfYear(call.p.market, y) # {}
    THEN ReturnDays(call.p.history, y) \cap ReturnDays(call.p.market, y)
    ELSE {}

\* the benchmark's returns on these days are all the same
BenchmarkFlat(y) ==
    \A d, e \in Overlap(y) : ReturnOn(call.p.market, y, d) = ReturnOn(call.p.market, y, e)

\* the value the beta block computes for year y
BetaValue(y) == beta_data(call.p, now_year)[IntCol(y)]

\* C15: once the assembler has returned a table, for every year with fewer
\* than 2 overlapping return observations, or with a benchmark whose returns
\* have no variance, the beta of the year is None: not a number, not NaN.
C15_BetaNullBelowTwoObservations ==
    (Assembled /\ ret.table # NoneV) =>
        \A y \in Years(now_year) :
            (Cardinality(Overlap(y)) < 2 \/ BenchmarkFlat(y)) => BetaValue(y) = NoneV

\* the years of YEARS_TO_EXTRACT with a trading day in the price history
TradedYears ==
    IF IsDataFrame(call.p.history)
    THEN {y \in Years(now_year) : RowsOfYear(call.p.history, y) # {}}
    ELSE {}

\* the sum of the daily dividends of year y, and its split ratios in date order
DividendSum(y) == SumOver(call.p.history, RowsOfYear(call.p.history, y), "Dividends")
SplitList(y) == SplitEvents(call.p.history, RowsOfYear(call.p.history, y))

\* the cell of year y in the row of a CSV file that begins with `name`
FileCell(f, name, y) ==
    f.rows[CHOOSE r \in 1..Len(f.rows) : Len(f.rows[r]) > 1 /\ f.rows[r][1] = name]
          [y - START_YEAR + 2]

\* C17: in a returned table, for every year with a trading day, the
\* dividend_and_split cell is a record with 'dividends' the sum of the year's
\* dividends, or None when the sum is 0, and 'splits' the year's non-zero
\* split ratios as strings in date order, or None when there is none; and in
\* every CSV file written a year with no dividends has an empty dividends
\* cell and a year without a split an empty splits cell.
C17_DividendsAndSplitsOfTheYear ==
    (Assembled /\ ret.table # NoneV) =>
        \A y \in TradedYears :
            /\ YearCell("dividend_and_split", y) =
                  Dict([k \in {"dividends", "splits"} |->
                        IF k = "dividends"
                        THEN (IF IsZero(DividendSum(y)) THEN NoneV ELSE DividendSum(y))
                        ELSE (IF SplitList(y) = <<>> THEN NoneV ELSE ListV(SplitList(y)))])
            /\ \A f \in csv_files :
                  /\ IsZero(DividendSum(y)) => FileCell(f, "dividends", y) = ""
                  /\ SplitList(y) = <<>> => FileCell(f, "splits", y) = ""

\* C17 witness: both files were written for a history with a dividend and a
\* split in START_YEAR and neither in the year after: the cells of the first
\* year are filled, those of the second are empty.
C17_Witness ==
    /\ pc = "report_done"
    /\ Cardinality(csv_files) = 2
    /\ TradedYears = {START_YEAR, START_YEAR + 1}
    /\ DividendSum(START_YEAR) = Num(1)
    /\ SplitList(START_YEAR) = <<"2.0">>
    /\ IsZero(DividendSum(START_YEAR + 1))
    /\ SplitList(START_YEAR + 1) = <<>>
    /\ \A f \in csv_files :
          /\ FileCell(f, "dividends", START_YEAR) # ""
          /\ FileCell(f, "splits", START_YEAR) = "2.0"
          /\ FileCell(f, "dividends", START_YEAR + 1) = ""
          /\ FileCell(f, "splits", START_YEAR + 1) = ""

\* a dividend/split record: exactly the keys 'dividends', a number or None,
\* and 'splits', a list of strings or None
IsDivSplitRecord(v) ==
    /\ v.t = "dict"
    /\ DOMAIN v.d = {"dividends", "splits"}
    /\ v.d["dividends"] = NoneV \/ IsNum(v.d["dividends"])
    /\ v.d["splits"] = NoneV \/ v.d["splits"].t = "list"

\* C18: in every returned table every cell of the dividend_and_split row,
\* under each year of YEARS_TO_EXTRACT and under 'actual', is null or a
\* record with exactly the keys 'dividends' and 'splits'.
C18_DivSplitCellsAreRecordsOrNull ==
    (Assembled /\ ret.table # NoneV) =>
        \A j \in 1..Len(cols_order(now_year)) :
            LET cell == DfAt(ret.table, "dividend_and_split", cols_order(now_year)[j])
            IN  IsNa(cell) \/ IsDivSplitRecord(cell)

\* what a line item of the balance sheet resolves to in the column of year y
BsItem(candidates, y) ==
    get_value_candidates_normalized(call.p.balance_sheet, candidates,
                                    LoopDate(call.p.balance_sheet, y))

\* the liabilities taken off the total assets: the current ones, else the
\* total ones, else 0
UsedLiabilities(y) ==
    IF BsItem(CurrentLiabCandidates, y) # NoneV THEN BsItem(CurrentLiabCandidates, y)
    ELSE IF BsItem(TotalLiabCandidates, y) # NoneV THEN BsItem(TotalLiabCandidates, y)
    ELSE Num(0)

\* the cash taken off the total assets: 0 when it does not resolve
UsedCash(y) ==
    IF BsItem(CashCandidates, y) # NoneV THEN BsItem(CashCandidates, y) ELSE Num(0)

\* the years of YEARS_TO_EXTRACT the balance sheet has a column of
BalanceYears ==
    {y \in Years(now_year) : IntCol(y) \in LoopYears(call.p.balance_sheet, Years(now_year))}

\* C19: in a returned table, for every year the balance sheet has a column
\* of, the 'invested capital' cell is null when the total assets do not
\* resolve, and otherwise the total assets minus L minus C, L being the
\* current liabilities when they resolve, else the total liabilities when
\* they resolve, else 0, and C the cash when it resolves, else 0.
C19_InvestedCapitalFallbacks ==
    (Assembled /\ ret.table # NoneV) =>
        \A y \in BalanceYears :
            IF BsItem(TotalAssetsCandidates, y) = NoneV
            THEN IsNa(YearCell("invested capital", y))
            ELSE YearCell("invested capital", y) =
                     Sub(Sub(BsItem(TotalAssetsCandidates, y), UsedLiabilities(y)), UsedCash(y))

\* C19 witness: in START_YEAR the current liabilities and the cash do not
\* resolve and the total liabilities do: the cell is 16 - 8 - 0.
C19_Witness ==
    /\ Assembled /\ ret.table # NoneV
    /\ START_YEAR \in BalanceYears
    /\ BsItem(TotalAssetsCandidates, START_YEAR) = Num(16)
    /\ BsItem(CurrentLiabCandidates, START_YEAR) = NoneV
    /\ BsItem(TotalLiabCandidates, START_YEAR) = Num(8)
    /\ BsItem(CashCandidates, START_YEAR) = NoneV
    /\ YearCell("invested capital", START_YEAR) = Num(8)

\* the writer was called and has returned
Written == pc = "report_done" /\ ret.table # NoneV

\* a file with this path is on disk
OnDisk(path) == \E f \in csv_files : f.path = path

\* save_to_csv logged an error
SaveErrorLogged == \E j \in 1..Len(log) : log[j] = LogRecord("error", "csv_save_error", call.ticker)

\* C11: save_to_csv returns the pair of paths or None and never raises; when
\* nothing fails both files are on disk and the pair (raw path, readable
\* path) is returned; when creating the directory or writing either file
\* fails, the error is logged and None is returned.
C11_SaveReturnsPathsOrNone ==
    Written =>
        /\ ret.saved.t \in {"tuple", "None"}
        /\ ret.io = Str("ok") =>
              /\ ret.saved = [t |-> "tuple",
                              raw_path |-> raw_path(call.ticker, now_year),
                              readable_path |-> readable_path(call.ticker, now_year)]
              /\ OnDisk(raw_path(call.ticker, now_year))
              /\ OnDisk(readable_path(call.ticker, now_year))
              /\ ~SaveErrorLogged
        /\ ret.io # Str("ok") =>
              /\ ret.saved = NoneV
              /\ SaveErrorLogged

\* C11 witness: the readable file could not be opened after the raw file was
\* written; the error was logged and None returned.
C11_Witness ==
    /\ Written
    /\ ret.io = Str("open_readable")
    /\ ret.saved = NoneV
    /\ SaveErrorLogged
    /\ OnDisk(raw_path(call.ticker, now_year))
    /\ ~OnDisk(readable_path(call.ticker, now_year))

-----------------------------------------------------------------------------
(* The field resolver applied to bounded statement tables and candidate    *)
(* lists (SpecResolver).                                                   *)

MaxRows == 2
MaxCands == 2


SeqsUpTo(S, lo, hi) == UNION {[1..n -> S] : n \in lo..hi}

\* One period column; row i holds i or NaN, so rows are told apart by value.
ResolverTables ==
    {NoneV, EmptyDf} \cup
    {Df(index, <<Ts(2021)>>, [i \in 1..Len(index) |-> <<IF i \in nan THEN NaN ELSE Num(i)>>]) :
        index \in SeqsUpTo(LabelPool, 1, MaxRows), nan \in SUBSET (1..MaxRows)}

ResolverCalls ==
    [df : ResolverTables,
     candidates : SeqsUpTo(CandidatePool, 1, MaxCands),
     date : {Ts(2021), Ts(2022)}]

InitResolver ==
    /\ pc = "resolver_call"
    /\ HarnessIdle
    /\ now_year = 2021
    /\ call \in ResolverCalls
    /\ ret = NoneV

Resolve ==
    /\ pc = "resolver_call"
    /\ pc' = "resolver_done"
    /\ ret' = [label |-> _find_label_by_candidates(call.df, call.candidates),
               normalized |-> get_value_candidates_normalized(call.df, call.candidates, call.date),
               exact |-> get_value_candidates(call.df, call.candidates, call.date)]
    /\ UNCHANGED call
    /\ MainUnchanged

NextResolver == Resolve

SpecResolver == InitResolver /\ [][NextResolver]_vars

\* the spellings of the row labels and of the candidates
Spellings == LabelPool \cup CandidatePool

\* _norm of every spelling, and its trimmed lower-case form
Normalized == [s \in Spellings |-> _norm(s)]
Lowered == [s \in Spellings |-> LowerStrip(s)]

\* Row i of the table of the call carries a label that some candidate of the
\* call spells, up to case, spaces and underscores.
IsVariantRow(i) ==
    \E k \in 1..Len(call.candidates) :
        Normalized[call.candidates[k]] = Normalized[call.df.index[i]]

\* The first candidate, in list order, whose normalized form is that of some
\* row label (0: none).
FirstMatchingCandidate ==
    LET m == {k \in 1..Len(call.candidates) :
                \E i \in 1..Len(call.df.index) :
                    Normalized[call.df.index[i]] = Normalized[call.candidates[k]]}
    IN  IF m = {} THEN 0 ELSE Min(m)

\* C6 as stated: for every row label L of the table that some candidate spells
\* up to case, spaces and underscores, the normalized resolver returns the cell
\* at the exact label L.
C6_AnyVariantResolvesToExactLabel ==
    (pc = "resolver_done" /\ IsDataFrame(call.df)) =>
        \A i \in 1..Len(call.df.index) :
            IsVariantRow(i) =>
                ret.normalized = safe_get_value(call.df, call.df.index[i], call.date)

\* C6 amended: the same, for the row label L that is the last row of the
\* table with its normalized form and whose normalized form is that of the
\* first candidate, in priority order, that matches any row.
C6_WinningVariantResolvesToExactLabel ==
    (pc = "resolver_done" /\ IsDataFrame(call.df)) =>
        \A i \in 1..Len(call.df.index) :
            ( /\ IsVariantRow(i)
              /\ \A j \in (i + 1)..Len(call.df.index) :
                    Normalized[call.df.index[j]] # Normalized[call.df.index[i]]
              /\ Normalized[call.candidates[FirstMatchingCandidate]] = Normalized[call.df.index[i]] )
            => ret.normalized = safe_get_value(call.df, call.df.index[i], call.date)

\* A source row spelled "totalRevenue", asked for as " total_revenue", with a
\* value at the period: the resolver has returned that value.
C6_Witness ==
    /\ pc = "resolver_done"
    /\ IsDataFrame(call.df)
    /\ call.df.index = <<"Net Income", "totalRevenue">>
    /\ call.candidates = <<" total_revenue">>
    /\ call.date = Ts(2021)
    /\ ret.normalized = Num(2)

\* candidate k, trimmed and lower-cased, is part of row label i, likewise
ContainedIn(k, i) ==
    Contains(Lowered[call.df.index[i]], Lowered[call.candidates[k]])

\* The first candidate, in list order, that some row label contains (0: none).
FirstContainedCandidate ==
    LET m == {k \in 1..Len(call.candidates) :
                \E i \in 1..Len(call.df.index) : ContainedIn(k, i)}
    IN  IF m = {} THEN 0 ELSE Min(m)

\* C16: for an absent or empty table the label found is None.  Otherwise, if
\* some candidate has a normalized match, the label found is a row label with
\* the normalized form of the first such candidate; if none has, it is the
\* first row label, in table order, that contains the first candidate
\* contained in any row label; and None if there is no such candidate.
C16_NormalizedFirstThenSubstring ==
    pc = "resolver_done" =>
        IF ~IsDataFrame(call.df) \/ DfEmpty(call.df) THEN ret.label = NoneV
        ELSE IF FirstMatchingCandidate # 0
        THEN /\ ret.label # NoneV
             /\ ret.label.s \in SeqToSet(call.df.index)
             /\ Normalized[ret.label.s] = Normalized[call.candidates[FirstMatchingCandidate]]
        ELSE IF FirstContainedCandidate # 0
        THEN ret.label =
                Str(call.df.index[Min({i \in 1..Len(call.df.index) :
                                            ContainedIn(FirstContainedCandidate, i)})])
        ELSE ret.label = NoneV

\* C16 witness: "Revenue" is part of the first row label but the second
\* candidate has a normalized match, and its row is the label found.
C16_Witness ==
    /\ pc = "resolver_done"
    /\ IsDataFrame(call.df)
    /\ call.df.index = <<"Total Revenue", "Net Income">>
    /\ call.candidates = <<"Revenue", "netIncome">>
    /\ ret.label = Str("Net Income")

\* the cell of row i at the period of the call (None: no such column)
PeriodCell(i) ==
    IF Positions(call.df.columns, call.date) = {} THEN NoneV
    ELSE call.df.data[i][CHOOSE j \in Positions(call.df.columns, call.date) : TRUE]

\* the rows that carry the label found
ChosenRows == {i \in 1..Len(call.df.index) : Str(call.df.index[i]) = ret.label}

\* the rows that carry exactly the spelling of candidate k
ExactRows(k) == {i \in 1..Len(call.df.index) : call.df.index[i] = call.candidates[k]}

\* the cell candidate k denotes by its exact spelling (None: no such row, more
\* than one, or a null cell)
ExactValue(k) ==
    IF Cardinality(ExactRows(k)) # 1 THEN NoneV
    ELSE IF IsNa(PeriodCell(CHOOSE i \in ExactRows(k) : TRUE)) THEN NoneV
    ELSE PeriodCell(CHOOSE i \in ExactRows(k) : TRUE)

\* the candidates whose exact spelling denotes a cell with a value
ExactHits == {k \in 1..Len(call.candidates) : ExactValue(k) # NoneV}

\* a candidate after the first matching one spells, exactly, a row with a
\* value at the period
LaterCandidateHasValue == \E k \in ExactHits : k > FirstMatchingCandidate

=============================================================================
